---- MODULE Spec2Model ----
(***************************************************************************)
(* Model of the file based catalog of delta-sharing-rs:                    *)
(*   src/src/catalog/mod.rs         entities, builders, Pagination, Page   *)
(*   src/src/catalog/file/model.rs  ShareFile and its descriptor records   *)
(*   src/src/catalog/file/mod.rs    FileCatalog and paginate_response      *)
(* A state is the snapshot held by one FileCatalog instance, the last call *)
(* made on it with its locals and its result, and the position of a client *)
(* that pages through a listing (tests/catalog.rs, list_shares_pagination).*)
(* Further specifications of the same module follow construction from the  *)
(* configuration file (SpecLoad), callers that share one instance          *)
(* (SpecTasks) and the entity builders (SpecBuilder).                      *)
(***************************************************************************)
EXTENDS Integers, Sequences, FiniteSets, TLC

VARIABLES shares, pc, call, filtered, ret, trav, config, disk, tasks, builder, query

vars == <<shares, pc, call, filtered, ret, trav, config, disk, tasks, builder, query>>

(***************************************************************************)
(* Option<T>                                                               *)
(***************************************************************************)
None == [some |-> FALSE]

Some(x) == [some |-> TRUE, v |-> x]

(***************************************************************************)
(* Bounds of the model.                                                    *)
(***************************************************************************)
\* longest list of shares in a snapshot
MaxShares == 2

\* largest max_results a caller passes explicitly
MaxMaxResults == 2

\* largest well-formed offset a caller passes as a page token, beside the
\* offsets around the word limit
MaxTokenOffset == 4

\* most calls a paging client makes in one traversal
MaxCalls == 8

\* usize::MAX of the modelled machine word (the width is scaled down; sums
\* are reduced modulo USIZE_MAX + 1 where the build wraps)
USIZE_MAX == 1023

(***************************************************************************)
(* Result<T, CatalogError>, and a panic that unwinds the call.             *)
(***************************************************************************)
Ok(x) == [kind |-> "Ok", v |-> x]

Err(k) == [kind |-> "Err", err |-> k]

Panic == [kind |-> "Panic"]

not_found == Err("ResourceNotFound")

forbidden == Err("ResourceForbidden")

malformed_pagination == Err("MalformedPagination")

\* CatalogError::internal: the kind together with the message
internal(message) == [kind |-> "Err", err |-> "Internal", message |-> message]

\* CatalogError::message
message(e) == e.message

\* the message of a build that misses a required attribute: the text
\* before the quoted attribute name, the name, and the text after it
not_set(attribute) == <<"the required attribute", attribute, "was not set">>

\* Result::expect: the value, or a panic
expect(r) == IF r.kind = "Ok" THEN r.v ELSE Panic

(***************************************************************************)
(* Iterator adapters.  map is written [i \in 1..Len(s) |-> ...], filter is *)
(* SelectSeq, any is a bounded \E; flat_map is a map followed by flatten.  *)
(***************************************************************************)
\* mutant: the later sequences come first
flatten_reversed(ss) ==
  LET f[i \in 0..Len(ss)] == IF i = 0 THEN << >> ELSE ss[i] \o f[i - 1]
  IN  f[Len(ss)]

\* the concatenation of a sequence of sequences, in order
flatten(ss) ==
  LET f[i \in 0..Len(ss)] == IF i = 0 THEN << >> ELSE f[i - 1] \o ss[i]
  IN  f[Len(ss)]

\* Iterator::find(|x| x.name() == name): the first element of that name
find(s, name) ==
  IF \E i \in 1..Len(s) : s[i].name = name
    THEN Some(s[CHOOSE i \in 1..Len(s) :
                  s[i].name = name /\ \A j \in 1..(i - 1) : s[j].name # name])
    ELSE None

(***************************************************************************)
(* Builders and entities (catalog/mod.rs).  A builder is the record of its *)
(* optional fields; build() checks the required ones in the order of the   *)
(* code.                                                                   *)
(***************************************************************************)
\* HashMap::new, HashMap::insert and HashMap::get; a map is a function on
\* its keys
HashMap_new == [k \in {} |-> ""]

insert(map, key, value) ==
  [k \in DOMAIN map \cup {key} |-> IF k = key THEN value ELSE map[k]]

get(map, key) == IF key \in DOMAIN map THEN Some(map[key]) ELSE None

\* Option::get_or_insert_with(HashMap::new)
get_or_insert_with(extensions) == IF extensions.some THEN extensions.v ELSE HashMap_new

ShareBuilder_new == [id |-> None, name |-> None, extensions |-> None]

ShareBuilder_id(b, share_id) == [b EXCEPT !.id = Some(share_id)]

ShareBuilder_set_id(b, share_id) == [b EXCEPT !.id = share_id]

ShareBuilder_name(b, share_name) == [b EXCEPT !.name = Some(share_name)]

ShareBuilder_set_name(b, share_name) == [b EXCEPT !.name = share_name]

\* mutant: add_extension on an absent bag is ignored
TableBuilder_add_extension_needs_bag(b, key, value) ==
  IF b.extensions.some
    THEN [b EXCEPT !.extensions = Some(insert(b.extensions.v, key, value))]
    ELSE b

ShareBuilder_add_extension(b, key, value) ==
  [b EXCEPT !.extensions = Some(insert(get_or_insert_with(b.extensions), key, value))]

ShareBuilder_set_extensions(b, extensions) == [b EXCEPT !.extensions = extensions]

ShareBuilder_build(b) ==
  IF ~b.name.some
    THEN internal(not_set("name"))
    ELSE Ok([id |-> b.id, name |-> b.name.v, extensions |-> b.extensions])

SchemaBuilder_new ==
  [schema_id |-> None, share_id |-> None, schema_name |-> None,
   share_name |-> None, extensions |-> None]

SchemaBuilder_id(b, schema_id) == [b EXCEPT !.schema_id = Some(schema_id)]

SchemaBuilder_set_id(b, schema_id) == [b EXCEPT !.schema_id = schema_id]

SchemaBuilder_share_id(b, share_id) == [b EXCEPT !.share_id = Some(share_id)]

SchemaBuilder_set_share_id(b, share_id) == [b EXCEPT !.share_id = share_id]

SchemaBuilder_name(b, schema_name) == [b EXCEPT !.schema_name = Some(schema_name)]

SchemaBuilder_set_name(b, schema_name) == [b EXCEPT !.schema_name = schema_name]

SchemaBuilder_share_name(b, share_name) == [b EXCEPT !.share_name = Some(share_name)]

SchemaBuilder_set_share_name(b, share_name) == [b EXCEPT !.share_name = share_name]

SchemaBuilder_build(b) ==
  IF ~b.schema_name.some THEN internal(not_set("name"))
  ELSE IF ~b.share_name.some THEN internal(not_set("share_name"))
  ELSE Ok([id |-> b.schema_id, name |-> b.schema_name.v,
           share_name |-> b.share_name.v, extensions |-> b.extensions])

TableBuilder_new ==
  [share_id |-> None, schema_id |-> None, table_id |-> None,
   share_name |-> None, schema_name |-> None, table_name |-> None,
   storage_path |-> None, extensions |-> None]

TableBuilder_share_id(b, share_id) == [b EXCEPT !.share_id = Some(share_id)]

TableBuilder_set_share_id(b, share_id) == [b EXCEPT !.share_id = share_id]

TableBuilder_schema_id(b, schema_id) == [b EXCEPT !.schema_id = Some(schema_id)]

TableBuilder_set_schema_id(b, schema_id) == [b EXCEPT !.schema_id = schema_id]

TableBuilder_id(b, table_id) == [b EXCEPT !.table_id = Some(table_id)]

TableBuilder_set_id(b, table_id) == [b EXCEPT !.table_id = table_id]

TableBuilder_share_name(b, share_name) == [b EXCEPT !.share_name = Some(share_name)]

TableBuilder_set_share_name(b, share_name) == [b EXCEPT !.share_name = share_name]

TableBuilder_schema_name(b, schema_name) == [b EXCEPT !.schema_name = Some(schema_name)]

TableBuilder_set_schema_name(b, schema_name) == [b EXCEPT !.schema_name = schema_name]

TableBuilder_name(b, table_name) == [b EXCEPT !.table_name = Some(table_name)]

TableBuilder_set_name(b, table_name) == [b EXCEPT !.table_name = table_name]

TableBuilder_storage_path(b, path) == [b EXCEPT !.storage_path = Some(path)]

TableBuilder_set_storage_path(b, path) == [b EXCEPT !.storage_path = path]

TableBuilder_add_extension(b, key, value) ==
  [b EXCEPT !.extensions = Some(insert(get_or_insert_with(b.extensions), key, value))]

TableBuilder_set_extensions(b, extensions) == [b EXCEPT !.extensions = extensions]

\* mutant: build does not ask for the storage path
TableBuilder_build_unchecked_path(b) ==
  IF ~b.share_name.some THEN internal(not_set("share_name"))
  ELSE IF ~b.schema_name.some THEN internal(not_set("schema_name"))
  ELSE IF ~b.table_name.some THEN internal(not_set("table_name"))
  ELSE Ok([id |-> b.table_id, name |-> b.table_name.v, share_id |-> b.share_id,
           share_name |-> b.share_name.v, schema_name |-> b.schema_name.v,
           storage_location |-> IF b.storage_path.some THEN b.storage_path.v ELSE "",
           extensions |-> b.extensions])

\* mutant: build asks for the storage path first
TableBuilder_build_path_first(b) ==
  IF ~b.storage_path.some THEN internal(not_set("storage_path"))
  ELSE IF ~b.share_name.some THEN internal(not_set("share_name"))
  ELSE IF ~b.schema_name.some THEN internal(not_set("schema_name"))
  ELSE IF ~b.table_name.some THEN internal(not_set("table_name"))
  ELSE Ok([id |-> b.table_id, name |-> b.table_name.v, share_id |-> b.share_id,
           share_name |-> b.share_name.v, schema_name |-> b.schema_name.v,
           storage_location |-> b.storage_path.v, extensions |-> b.extensions])

TableBuilder_build(b) ==
  IF ~b.share_name.some THEN internal(not_set("share_name"))
  ELSE IF ~b.schema_name.some THEN internal(not_set("schema_name"))
  ELSE IF ~b.table_name.some THEN internal(not_set("table_name"))
  ELSE IF ~b.storage_path.some THEN internal(not_set("storage_path"))
  ELSE Ok([id |-> b.table_id, name |-> b.table_name.v, share_id |-> b.share_id,
           share_name |-> b.share_name.v, schema_name |-> b.schema_name.v,
           storage_location |-> b.storage_path.v, extensions |-> b.extensions])

\* Table::storage_path
storage_path(table) == table.storage_location

\* Share::get_extension, Table::get_extension
get_extension(entity, key) ==
  IF entity.extensions.some THEN get(entity.extensions.v, key) ELSE None

(***************************************************************************)
(* Descriptor records of the configuration file (catalog/file/model.rs).   *)
(***************************************************************************)
to_share(cfg) ==
  expect(ShareBuilder_build(
    ShareBuilder_set_extensions(ShareBuilder_name(ShareBuilder_new, cfg.name),
                                cfg.extensions)))

to_schema(cfg, share_name) ==
  expect(SchemaBuilder_build(
    SchemaBuilder_share_name(SchemaBuilder_name(SchemaBuilder_new, cfg.name),
                             share_name)))

\* mutant: the table id is taken for the share id
to_table_id_as_share_id(cfg, share_name, schema_name) ==
  expect(TableBuilder_build(
    TableBuilder_set_extensions(
      TableBuilder_share_name(
        TableBuilder_schema_name(
          TableBuilder_set_share_id(
            TableBuilder_storage_path(TableBuilder_name(TableBuilder_new, cfg.name),
                                      cfg.location),
            cfg.id),
          schema_name),
        share_name),
      cfg.extensions)))

to_table(cfg, share_name, schema_name) ==
  expect(TableBuilder_build(
    TableBuilder_set_extensions(
      TableBuilder_share_name(
        TableBuilder_schema_name(
          TableBuilder_set_id(
            TableBuilder_storage_path(TableBuilder_name(TableBuilder_new, cfg.name),
                                      cfg.location),
            cfg.id),
          schema_name),
        share_name),
      cfg.extensions)))

\* ShareConfig::schemas
schemas(share_cfg) == share_cfg.schemas

\* SchemaConfig::tables
tables(schema_cfg) == schema_cfg.tables

(***************************************************************************)
(* ShareFile (catalog/file/model.rs): linear scans over the descriptors.   *)
(***************************************************************************)
ShareFile_new == << >>

\* mutant: the recipients list is not consulted
ShareFile_list_shares_unfiltered(file, recipient) ==
  [i \in 1..Len(file) |-> to_share(file[i])]

\* mutant: an empty recipients list is taken as no restriction
ShareFile_list_shares_empty_public(file, recipient) ==
  LET visible == SelectSeq(file,
                   LAMBDA cfg : IF cfg.recipients.some /\ Len(cfg.recipients.v) > 0
                                  THEN \E i \in 1..Len(cfg.recipients.v) :
                                         cfg.recipients.v[i] = recipient
                                  ELSE TRUE)
  IN  [i \in 1..Len(visible) |-> to_share(visible[i])]

ShareFile_list_shares(file, recipient) ==
  LET visible == SelectSeq(file,
                   LAMBDA cfg : IF cfg.recipients.some
                                  THEN \E i \in 1..Len(cfg.recipients.v) :
                                         cfg.recipients.v[i] = recipient
                                  ELSE TRUE)
  IN  [i \in 1..Len(visible) |-> to_share(visible[i])]

\* mutant: an empty recipients list is taken as no restriction
ShareFile_list_schemas_empty_public(file, recipient, share_name) ==
  LET visible == SelectSeq(file,
                   LAMBDA share_cfg : IF share_cfg.recipients.some
                                           /\ Len(share_cfg.recipients.v) > 0
                                        THEN \E i \in 1..Len(share_cfg.recipients.v) :
                                               share_cfg.recipients.v[i] = recipient
                                        ELSE TRUE)
      named == SelectSeq(visible, LAMBDA share_cfg : share_cfg.name = share_name)
      schema_cfgs == flatten([i \in 1..Len(named) |-> schemas(named[i])])
  IN  [i \in 1..Len(schema_cfgs) |-> to_schema(schema_cfgs[i], share_name)]

ShareFile_list_schemas(file, recipient, share_name) ==
  LET visible == SelectSeq(file,
                   LAMBDA share_cfg : IF share_cfg.recipients.some
                                        THEN \E i \in 1..Len(share_cfg.recipients.v) :
                                               share_cfg.recipients.v[i] = recipient
                                        ELSE TRUE)
      named == SelectSeq(visible, LAMBDA share_cfg : share_cfg.name = share_name)
      schema_cfgs == flatten([i \in 1..Len(named) |-> schemas(named[i])])
  IN  [i \in 1..Len(schema_cfgs) |-> to_schema(schema_cfgs[i], share_name)]

\* mutant: only the first schema of each share is listed
ShareFile_list_tables_in_share_first_schema(file, recipient, share_name) ==
  LET visible == SelectSeq(file,
                   LAMBDA share_cfg : IF share_cfg.recipients.some
                                        THEN \E i \in 1..Len(share_cfg.recipients.v) :
                                               share_cfg.recipients.v[i] = recipient
                                        ELSE TRUE)
      named == SelectSeq(visible, LAMBDA share_cfg : share_cfg.name = share_name)
      schema_cfgs == flatten([i \in 1..Len(named) |-> SubSeq(schemas(named[i]), 1, 1)])
      pairs == flatten([i \in 1..Len(schema_cfgs) |->
                   [k \in 1..Len(tables(schema_cfgs[i])) |->
                      <<schema_cfgs[i].name, tables(schema_cfgs[i])[k]>>]])
  IN  [i \in 1..Len(pairs) |-> to_table(pairs[i][2], share_name, pairs[i][1])]

\* mutant: the tables of a share are listed whoever asks
ShareFile_list_tables_in_share_unfiltered(file, recipient, share_name) ==
  LET named == SelectSeq(file, LAMBDA share_cfg : share_cfg.name = share_name)
      schema_cfgs == flatten([i \in 1..Len(named) |-> schemas(named[i])])
      pairs == flatten([i \in 1..Len(schema_cfgs) |->
                   [k \in 1..Len(tables(schema_cfgs[i])) |->
                      <<schema_cfgs[i].name, tables(schema_cfgs[i])[k]>>]])
  IN  [i \in 1..Len(pairs) |-> to_table(pairs[i][2], share_name, pairs[i][1])]

ShareFile_list_tables_in_share(file, recipient, share_name) ==
  LET visible == SelectSeq(file,
                   LAMBDA share_cfg : IF share_cfg.recipients.some
                                        THEN \E i \in 1..Len(share_cfg.recipients.v) :
                                               share_cfg.recipients.v[i] = recipient
                                        ELSE TRUE)
      named == SelectSeq(visible, LAMBDA share_cfg : share_cfg.name = share_name)
      schema_cfgs == flatten([i \in 1..Len(named) |-> schemas(named[i])])
      \* std::iter::repeat(&schema_cfg.name).zip(schema_cfg.tables().iter())
      pairs == flatten([i \in 1..Len(schema_cfgs) |->
                   [k \in 1..Len(tables(schema_cfgs[i])) |->
                      <<schema_cfgs[i].name, tables(schema_cfgs[i])[k]>>]])
  IN  [i \in 1..Len(pairs) |-> to_table(pairs[i][2], share_name, pairs[i][1])]

\* mutant: the tables of a schema are listed whoever asks
ShareFile_list_tables_in_schema_unfiltered(file, recipient, share_name, schema_name) ==
  LET named == SelectSeq(file, LAMBDA share_cfg : share_cfg.name = share_name)
      schema_cfgs == SelectSeq(flatten([i \in 1..Len(named) |-> schemas(named[i])]),
                               LAMBDA schema_cfg : schema_cfg.name = schema_name)
      table_cfgs == flatten([i \in 1..Len(schema_cfgs) |-> tables(schema_cfgs[i])])
  IN  [i \in 1..Len(table_cfgs) |-> to_table(table_cfgs[i], share_name, schema_name)]

\* mutant: the tables of every schema of the share are listed
ShareFile_list_tables_in_schema_any_schema(file, recipient, share_name, schema_name) ==
  LET visible == SelectSeq(file,
                   LAMBDA share_cfg : IF share_cfg.recipients.some
                                        THEN \E i \in 1..Len(share_cfg.recipients.v) :
                                               share_cfg.recipients.v[i] = recipient
                                        ELSE TRUE)
      named == SelectSeq(visible, LAMBDA share_cfg : share_cfg.name = share_name)
      schema_cfgs == flatten([i \in 1..Len(named) |-> schemas(named[i])])
      table_cfgs == flatten([i \in 1..Len(schema_cfgs) |-> tables(schema_cfgs[i])])
  IN  [i \in 1..Len(table_cfgs) |-> to_table(table_cfgs[i], share_name, schema_name)]

ShareFile_list_tables_in_schema(file, recipient, share_name, schema_name) ==
  LET visible == SelectSeq(file,
                   LAMBDA share_cfg : IF share_cfg.recipients.some
                                        THEN \E i \in 1..Len(share_cfg.recipients.v) :
                                               share_cfg.recipients.v[i] = recipient
                                        ELSE TRUE)
      named == SelectSeq(visible, LAMBDA share_cfg : share_cfg.name = share_name)
      schema_cfgs == SelectSeq(flatten([i \in 1..Len(named) |-> schemas(named[i])]),
                               LAMBDA schema_cfg : schema_cfg.name = schema_name)
      table_cfgs == flatten([i \in 1..Len(schema_cfgs) |-> tables(schema_cfgs[i])])
  IN  [i \in 1..Len(table_cfgs) |-> to_table(table_cfgs[i], share_name, schema_name)]

\* mutant: the share is looked up among all shares, visible or not
ShareFile_get_share_unfiltered(file, name, recipient) ==
  find([i \in 1..Len(file) |-> to_share(file[i])], name)

ShareFile_get_share(file, name, recipient) ==
  find(ShareFile_list_shares(file, recipient), name)

ShareFile_get_table(file, share_name, schema_name, table_name, recipient) ==
  find(ShareFile_list_tables_in_schema(file, recipient, share_name, schema_name),
       table_name)

(***************************************************************************)
(* Page tokens are strings, modelled as sequences of characters.           *)
(* parse_usize is str::parse::<usize>: an optional leading "+", then one   *)
(* or more decimal digits whose value fits the word; to_string is the      *)
(* decimal text of a word.                                                 *)
(***************************************************************************)
Digits == <<"0", "1", "2", "3", "4", "5", "6", "7", "8", "9">>

to_digit(c) ==
  IF \E d \in 1..Len(Digits) : Digits[d] = c
    THEN Some((CHOOSE d \in 1..Len(Digits) : Digits[d] = c) - 1)
    ELSE None

parse_usize(src) ==
  IF Len(src) = 0 THEN None
  ELSE IF Len(src) = 1 /\ src[1] \in {"+", "-"} THEN None
  ELSE LET digits == IF src[1] = "+" THEN Tail(src) ELSE src
           acc[i \in 0..Len(digits)] ==
             IF i = 0 THEN Some(0)
             ELSE IF ~acc[i - 1].some \/ ~to_digit(digits[i]).some THEN None
             ELSE IF acc[i - 1].v * 10 + to_digit(digits[i]).v > USIZE_MAX THEN None
             ELSE Some(acc[i - 1].v * 10 + to_digit(digits[i]).v)
       IN  acc[Len(digits)]

RECURSIVE to_string(_)
to_string(n) ==
  IF n < 10 THEN <<Digits[n + 1]>>
  ELSE to_string(n \div 10) \o <<Digits[(n % 10) + 1]>>

(***************************************************************************)
(* paginate_response (catalog/file/mod.rs).  overflow_checks tells whether *)
(* the build panics on an overflowing offset + max_results or wraps it.    *)
(* A slice whose start lies beyond its end, or beyond the vector, panics.  *)
(***************************************************************************)
DEFAULT_MAX_RESULTS == 500

Page_new(items, next_page_token) == [items |-> items, next_page_token |-> next_page_token]

\* mutant: the next token is one past the end of the page
paginate_response_token_off_by_one(items, pagination, overflow_checks) ==
  LET parsed == IF pagination.page_token.some
                  THEN parse_usize(pagination.page_token.v)
                  ELSE Some(0)
  IN  IF ~parsed.some THEN malformed_pagination
      ELSE LET offset == parsed.v
               max_results == IF pagination.max_results.some
                                THEN pagination.max_results.v
                                ELSE DEFAULT_MAX_RESULTS
               end == (offset + max_results) % (USIZE_MAX + 1)
           IN  IF offset + max_results > USIZE_MAX /\ overflow_checks THEN Panic
               ELSE IF end >= Len(items)
                 THEN IF offset > Len(items) THEN Panic
                      ELSE Ok(Page_new(SubSeq(items, offset + 1, Len(items)), None))
                 ELSE IF offset > end THEN Panic
                      ELSE Ok(Page_new(SubSeq(items, offset + 1, end),
                                       Some(to_string(end + 1))))

\* mutant: the last page is recognised with > in place of >=
paginate_response_strict(items, pagination, overflow_checks) ==
  LET parsed == IF pagination.page_token.some
                  THEN parse_usize(pagination.page_token.v)
                  ELSE Some(0)
  IN  IF ~parsed.some THEN malformed_pagination
      ELSE LET offset == parsed.v
               max_results == IF pagination.max_results.some
                                THEN pagination.max_results.v
                                ELSE DEFAULT_MAX_RESULTS
               end == (offset + max_results) % (USIZE_MAX + 1)
           IN  IF offset + max_results > USIZE_MAX /\ overflow_checks THEN Panic
               ELSE IF end > Len(items)
                 THEN IF offset > Len(items) THEN Panic
                      ELSE Ok(Page_new(SubSeq(items, offset + 1, Len(items)), None))
                 ELSE IF offset > end THEN Panic
                      ELSE Ok(Page_new(SubSeq(items, offset + 1, end),
                                       Some(to_string(end))))

\* mutant: a token that does not parse is taken as no token
paginate_response_lenient(items, pagination, overflow_checks) ==
  LET parsed == IF pagination.page_token.some
                     /\ parse_usize(pagination.page_token.v).some
                  THEN parse_usize(pagination.page_token.v)
                  ELSE Some(0)
  IN  LET offset == parsed.v
          max_results == IF pagination.max_results.some
                           THEN pagination.max_results.v
                           ELSE DEFAULT_MAX_RESULTS
          end == (offset + max_results) % (USIZE_MAX + 1)
      IN  IF offset + max_results > USIZE_MAX /\ overflow_checks THEN Panic
          ELSE IF end >= Len(items)
            THEN IF offset > Len(items) THEN Panic
                 ELSE Ok(Page_new(SubSeq(items, offset + 1, Len(items)), None))
            ELSE IF offset > end THEN Panic
                 ELSE Ok(Page_new(SubSeq(items, offset + 1, end),
                                  Some(to_string(end))))

\* mutant: a max_results of zero is raised to one
paginate_response_at_least_one(items, pagination, overflow_checks) ==
  LET parsed == IF pagination.page_token.some
                  THEN parse_usize(pagination.page_token.v)
                  ELSE Some(0)
  IN  IF ~parsed.some THEN malformed_pagination
      ELSE LET offset == parsed.v
               max_results == IF pagination.max_results.some
                                THEN IF pagination.max_results.v = 0 THEN 1
                                     ELSE pagination.max_results.v
                                ELSE DEFAULT_MAX_RESULTS
               end == (offset + max_results) % (USIZE_MAX + 1)
           IN  IF offset + max_results > USIZE_MAX /\ overflow_checks THEN Panic
               ELSE IF end >= Len(items)
                 THEN IF offset > Len(items) THEN Panic
                      ELSE Ok(Page_new(SubSeq(items, offset + 1, Len(items)), None))
                 ELSE IF offset > end THEN Panic
                      ELSE Ok(Page_new(SubSeq(items, offset + 1, end),
                                       Some(to_string(end))))

\* mutant: the next token is the length of the page, not its end
paginate_response_token_is_page_length(items, pagination, overflow_checks) ==
  LET parsed == IF pagination.page_token.some
                  THEN parse_usize(pagination.page_token.v)
                  ELSE Some(0)
  IN  IF ~parsed.some THEN malformed_pagination
      ELSE LET offset == parsed.v
               max_results == IF pagination.max_results.some
                                THEN pagination.max_results.v
                                ELSE DEFAULT_MAX_RESULTS
               end == (offset + max_results) % (USIZE_MAX + 1)
           IN  IF offset + max_results > USIZE_MAX /\ overflow_checks THEN Panic
               ELSE IF end >= Len(items)
                 THEN IF offset > Len(items) THEN Panic
                      ELSE Ok(Page_new(SubSeq(items, offset + 1, Len(items)), None))
                 ELSE IF offset > end THEN Panic
                      ELSE Ok(Page_new(SubSeq(items, offset + 1, end),
                                       Some(to_string(max_results))))

\* mutant: a range whose start lies beyond its end is empty
paginate_response_empty_range(items, pagination, overflow_checks) ==
  LET parsed == IF pagination.page_token.some
                  THEN parse_usize(pagination.page_token.v)
                  ELSE Some(0)
  IN  IF ~parsed.some THEN malformed_pagination
      ELSE LET offset == parsed.v
               max_results == IF pagination.max_results.some
                                THEN pagination.max_results.v
                                ELSE DEFAULT_MAX_RESULTS
               end == (offset + max_results) % (USIZE_MAX + 1)
           IN  IF offset + max_results > USIZE_MAX /\ overflow_checks THEN Panic
               ELSE IF end >= Len(items)
                 THEN IF offset > Len(items) THEN Panic
                      ELSE Ok(Page_new(SubSeq(items, offset + 1, Len(items)), None))
                 ELSE IF offset > end THEN Ok(Page_new(<< >>, Some(to_string(end))))
                      ELSE Ok(Page_new(SubSeq(items, offset + 1, end),
                                       Some(to_string(end))))

paginate_response(items, pagination, overflow_checks) ==
  LET parsed == IF pagination.page_token.some
                  THEN parse_usize(pagination.page_token.v)
                  ELSE Some(0)
  IN  IF ~parsed.some THEN malformed_pagination
      ELSE LET offset == parsed.v
               max_results == IF pagination.max_results.some
                                THEN pagination.max_results.v
                                ELSE DEFAULT_MAX_RESULTS
               end == (offset + max_results) % (USIZE_MAX + 1)
           IN  IF offset + max_results > USIZE_MAX /\ overflow_checks THEN Panic
               ELSE IF end >= Len(items)
                 THEN IF offset > Len(items) THEN Panic
                      ELSE Ok(Page_new(SubSeq(items, offset + 1, Len(items)), None))
                 ELSE IF offset > end THEN Panic
                      ELSE Ok(Page_new(SubSeq(items, offset + 1, end),
                                       Some(to_string(end))))

(***************************************************************************)
(* Inputs.  RecipientId::as_ref gives the recipient's name, or the         *)
(* sentinel string of the anonymous recipient.                             *)
(***************************************************************************)
AnonymousId == "ANONYMOUS"

Recipients == {AnonymousId, "client1", "unauthorized-client"}

ShareNames == {"share1", "share2"}

SchemaNames == {"schema1", "schema2"}

TableNames == {"table1", "table2"}

TableCfg(name, location, id, extensions) ==
  [name |-> name, location |-> location, id |-> id, extensions |-> extensions]

SchemaCfg(name, tbls) == [name |-> name, tables |-> tbls]

\* two schemas; table1 is declared in both, at different locations
SchemasA ==
  << SchemaCfg("schema1",
       << TableCfg("table1", "s3://bucket/prefix1", None, None),
          TableCfg("table2", "s3://bucket/prefix2", Some("id2"), None) >>),
     SchemaCfg("schema2",
       << TableCfg("table1", "s3://bucket/prefix3", None, None) >>) >>

\* a schema name declared twice, a table name declared twice in one schema,
\* and a schema without tables
SchemasB ==
  << SchemaCfg("schema1",
       << TableCfg("table1", "gs://bucket/prefix4", Some("id4"),
                   Some([foo |-> "bar"])),
          TableCfg("table1", "s3://bucket/prefix1", None, None) >>),
     SchemaCfg("schema2", << >>),
     SchemaCfg("schema1",
       << TableCfg("table2", "s3://bucket/prefix2", None, None) >>) >>

ShareCfg(name, recipients, schemas_, extensions) ==
  [name |-> name, schemas |-> schemas_, recipients |-> recipients,
   extensions |-> extensions]

\* the shares a snapshot is made of: both names, with an absent, an empty
\* and a one-name recipients list, and a list of two names of which the
\* second is the anonymous sentinel
SharePool ==
  { ShareCfg("share1", None, SchemasA, None),
    ShareCfg("share1", Some(<<"client1">>), SchemasB, Some([foo |-> "bar"])),
    ShareCfg("share1", Some(<< >>), SchemasA, None),
    ShareCfg("share2", None, SchemasB, Some([foo |-> "bar"])),
    ShareCfg("share2", Some(<<"client1", AnonymousId>>), SchemasA, None) }

SeqsUpTo(S, n) == UNION { [1..k -> S] : k \in 0..n }

Snapshots == SeqsUpTo(SharePool, MaxShares)

MalformedTokens ==
  { << >>, <<"-", "1">>, <<"1", "a">> }

PageTokens ==
  { None }
    \cup { Some(to_string(n)) : n \in 0..MaxTokenOffset }
    \cup { Some(to_string(USIZE_MAX)), Some(to_string(USIZE_MAX + 1)) }
    \cup { Some(<<"+", "1">>) }
    \cup { Some(t) : t \in MalformedTokens }

MaxResults == { None } \cup { Some(n) : n \in 0..MaxMaxResults }

\* Pagination::new
Pagination_new(max_results, page_token) ==
  [max_results |-> max_results, page_token |-> page_token]

Paginations == { Pagination_new(m, t) : m \in MaxResults, t \in PageTokens }

(***************************************************************************)
(* Construction (catalog/file/config.rs, catalog/file/mod.rs).  A file is  *)
(* a text in one of three syntaxes, or a text in none of them, and the     *)
(* data tree the text denotes; the file system gives the file at a path,   *)
(* if there is one.  Deserialization rejects a text its parser cannot read *)
(* and a tree that lacks the key shares or a required key of a share.      *)
(***************************************************************************)
FileFormats == {"Json", "Yaml", "Toml"}

\* FileCatalogConfig::new: the format defaults to Yaml
FileCatalogConfig_new(path) == [path |-> path, format |-> "Yaml"]

with_format(cfg, format) == [cfg EXCEPT !.format = format]

\* the value ()
Unit == [unit |-> TRUE]

\* OpenOptions::new().read(true).open(path)
open(fs, path) == IF fs[path].some THEN Ok(fs[path].v) ELSE Err("NotFound")

\* the texts the parser of a format reads; a JSON text is a YAML flow text
reads(format, syntax) ==
  \/ format = "Json" /\ syntax = "json"
  \/ format = "Yaml" /\ syntax \in {"yaml", "json"}
  \/ format = "Toml" /\ syntax = "toml"

\* derive(Deserialize) for ShareFile and ShareConfig: shares, and name and
\* schemas of every share, are required; the Option fields may be missing
is_share_file(doc) ==
  /\ "shares" \in DOMAIN doc
  /\ \A i \in 1..Len(doc.shares) :
       {"name", "schemas"} \subseteq DOMAIN doc.shares[i]

\* mutant: the TOML parser takes an empty recipients array as no array
from_reader_toml_drops_empty(format, content) ==
  IF ~reads(format, content.syntax) THEN Err("Syntax")
  ELSE IF ~is_share_file(content.doc) THEN Err("Data")
  ELSE IF format = "Toml"
    THEN Ok([i \in 1..Len(content.doc.shares) |->
               IF content.doc.shares[i].recipients = Some(<< >>)
                 THEN [content.doc.shares[i] EXCEPT !.recipients = None]
                 ELSE content.doc.shares[i]])
  ELSE Ok(content.doc.shares)

\* serde_json::from_reader, serde_yaml::from_reader, toml::from_str
from_reader(format, content) ==
  IF ~reads(format, content.syntax) THEN Err("Syntax")
  ELSE IF ~is_share_file(content.doc) THEN Err("Data")
  ELSE Ok(content.doc.shares)

\* FileCatalog::load: the instance after the call and the result
load(this, fs) ==
  LET handle == open(fs, this.config.path)
  IN  IF handle.kind = "Err" THEN [this |-> this, result |-> handle]
      ELSE LET parsed == from_reader(this.config.format, handle.v)
           IN  IF parsed.kind = "Err" THEN [this |-> this, result |-> parsed]
               ELSE [this |-> [this EXCEPT !.shares = parsed.v],
                     result |-> Ok(Unit)]

\* mutant: the outcome of load is not looked at
FileCatalog_new_unchecked(cfg, fs) ==
  load([config |-> cfg, shares |-> ShareFile_new], fs).this

\* FileCatalog::new: the instance, or a panic when load failed
FileCatalog_new(cfg, fs) ==
  LET this == [config |-> cfg, shares |-> ShareFile_new]
      loaded == load(this, fs)
  IN  IF expect(loaded.result) = Panic THEN Panic ELSE loaded.this

Paths == {"shares.yaml", "missing.yaml"}

Configs ==
  { FileCatalogConfig_new(path) : path \in Paths }
    \cup { with_format(FileCatalogConfig_new(path), f) : path \in Paths, f \in FileFormats }

\* a share entry without its name, as a text may declare it
Nameless == [schemas |-> SchemasA, recipients |-> None, extensions |-> None]

\* the trees of the texts: the documents of the snapshots, a document whose
\* last share lacks its name, and a tree without the key shares
Documents ==
  { [shares |-> snapshot] : snapshot \in Snapshots }
    \cup { [shares |-> <<ShareCfg("share1", None, SchemasA, None), Nameless>>],
           [version |-> "1"] }

Contents ==
  { [syntax |-> x, doc |-> d] : x \in {"json", "yaml", "toml"}, d \in Documents }
    \cup { [syntax |-> "none", doc |-> [shares |-> << >>]] }

\* file systems with one file, at the first path, or none
Disks ==
  { [path \in Paths |-> IF path = "shares.yaml" THEN c ELSE None] :
      c \in { None } \cup { Some(x) : x \in Contents } }

(***************************************************************************)
(* State.                                                                  *)
(*   shares    FileCatalog.shares, the loaded snapshot                     *)
(*   pc        "idle": no call in progress; "returned": the last call has  *)
(*             handed its result to the caller                             *)
(*   call      the last operation called and its arguments                 *)
(*   filtered  the access-filtered vector the call computed                *)
(*   ret       what the call returned                                      *)
(*   trav      the paging client: the items gathered so far and the        *)
(*             number of calls made                                        *)
(*   config    FileCatalog.config, the configuration given to new          *)
(*   disk      the file system: the content found at each path             *)
(*   tasks     the calls in progress of callers that share the instance    *)
(*   builder   an entity builder in use, and what build() returned         *)
(***************************************************************************)
NoArg == "-"

Call(op, share_name, schema_name, table_name, recipient, pagination) ==
  [op |-> op, share_name |-> share_name, schema_name |-> schema_name,
   table_name |-> table_name, recipient |-> recipient, pagination |-> pagination]

NoPagination == Pagination_new(None, None)

NoCall == Call("none", NoArg, NoArg, NoArg, NoArg, NoPagination)

NoRet == [kind |-> "none"]

Idle == [active |-> FALSE, items |-> << >>, calls |-> 0]

\* the callers that share one instance
MaxTasks == 2

Tasks == 1..MaxTasks

IdleTask == [pc |-> "idle", call |-> NoCall, filtered |-> << >>, ret |-> NoRet]

NoTasks == [t \in Tasks |-> IdleTask]

NoBuilder == [kind |-> "none"]

\* no request is being handled
NoQuery == [pc |-> "none"]

\* the instance is constructed from a YAML file that holds the snapshot
Init ==
  /\ shares \in Snapshots
  /\ pc = "idle"
  /\ call = NoCall
  /\ filtered = << >>
  /\ ret = NoRet
  /\ trav = Idle
  /\ config = FileCatalogConfig_new("shares.yaml")
  /\ disk = [path \in Paths |->
               IF path = "shares.yaml"
                 THEN Some([syntax |-> "yaml", doc |-> [shares |-> shares]])
                 ELSE None]
  /\ tasks = NoTasks
  /\ query = NoQuery
  /\ builder = NoBuilder

\* FileCatalog::file
file == shares

(***************************************************************************)
(* The six operations of impl Catalog for FileCatalog.  Each is one step:  *)
(* no operation suspends.                                                  *)
(***************************************************************************)
list_shares(recipient_id, pagination) ==
  /\ call' = Call("list_shares", NoArg, NoArg, NoArg, recipient_id, pagination)
  /\ filtered' = ShareFile_list_shares(file, recipient_id)
  /\ \E overflow_checks \in BOOLEAN :
       ret' = paginate_response(filtered', pagination, overflow_checks)
  /\ pc' = "returned"
  /\ UNCHANGED <<shares, config, disk, tasks, builder, query>>

\* mutant: a share that exists but is not visible is reported as forbidden
get_share_forbidden(share_name, recipient_id) ==
  /\ call' = Call("get_share", share_name, NoArg, NoArg, recipient_id, NoPagination)
  /\ filtered' = << >>
  /\ ret' = LET found == ShareFile_get_share(file, share_name, recipient_id)
            IN  IF found.some THEN Ok(found.v)
                ELSE IF \E i \in 1..Len(file) : file[i].name = share_name
                  THEN forbidden
                  ELSE not_found
  /\ pc' = "returned"
  /\ UNCHANGED <<shares, config, disk, tasks, builder, query>>

get_share(share_name, recipient_id) ==
  /\ call' = Call("get_share", share_name, NoArg, NoArg, recipient_id, NoPagination)
  /\ filtered' = << >>
  /\ ret' = LET found == ShareFile_get_share(file, share_name, recipient_id)
            IN  IF found.some THEN Ok(found.v) ELSE not_found
  /\ pc' = "returned"
  /\ UNCHANGED <<shares, config, disk, tasks, builder, query>>

list_schemas(share_name, recipient_id, pagination) ==
  /\ call' = Call("list_schemas", share_name, NoArg, NoArg, recipient_id, pagination)
  /\ filtered' = ShareFile_list_schemas(file, recipient_id, share_name)
  /\ \E overflow_checks \in BOOLEAN :
       ret' = paginate_response(filtered', pagination, overflow_checks)
  /\ pc' = "returned"
  /\ UNCHANGED <<shares, config, disk, tasks, builder, query>>

list_tables_in_share(share_name, recipient_id, pagination) ==
  /\ call' = Call("list_tables_in_share", share_name, NoArg, NoArg, recipient_id, pagination)
  /\ filtered' = ShareFile_list_tables_in_share(file, recipient_id, share_name)
  /\ \E overflow_checks \in BOOLEAN :
       ret' = paginate_response(filtered', pagination, overflow_checks)
  /\ pc' = "returned"
  /\ UNCHANGED <<shares, config, disk, tasks, builder, query>>

\* mutant: a share or schema that is not found is an error
list_tables_in_schema_not_found(share_name, schema_name, recipient_id, pagination) ==
  /\ call' = Call("list_tables_in_schema", share_name, schema_name, NoArg,
                  recipient_id, pagination)
  /\ filtered' = ShareFile_list_tables_in_schema(file, recipient_id, share_name, schema_name)
  /\ \E overflow_checks \in BOOLEAN :
       ret' = IF filtered' = << >> THEN not_found
              ELSE paginate_response(filtered', pagination, overflow_checks)
  /\ pc' = "returned"
  /\ UNCHANGED <<shares, config, disk, tasks, builder, query>>

list_tables_in_schema(share_name, schema_name, recipient_id, pagination) ==
  /\ call' = Call("list_tables_in_schema", share_name, schema_name, NoArg,
                  recipient_id, pagination)
  /\ filtered' = ShareFile_list_tables_in_schema(file, recipient_id, share_name, schema_name)
  /\ \E overflow_checks \in BOOLEAN :
       ret' = paginate_response(filtered', pagination, overflow_checks)
  /\ pc' = "returned"
  /\ UNCHANGED <<shares, config, disk, tasks, builder, query>>

\* mutant: a lookup that fails drops the shares of the name it looked for
get_table_pruning(share_name, schema_name, table_name, recipient_id) ==
  /\ call' = Call("get_table", share_name, schema_name, table_name, recipient_id,
                  NoPagination)
  /\ filtered' = ShareFile_list_tables_in_schema(file, recipient_id, share_name, schema_name)
  /\ ret' = LET found == find(filtered', table_name)
            IN  IF found.some THEN Ok(found.v) ELSE not_found
  /\ pc' = "returned"
  /\ shares' = IF find(filtered', table_name).some THEN shares
               ELSE SelectSeq(shares, LAMBDA cfg : cfg.name # share_name)
  /\ UNCHANGED <<config, disk, tasks, builder, query>>

get_table(share_name, schema_name, table_name, recipient_id) ==
  /\ call' = Call("get_table", share_name, schema_name, table_name, recipient_id,
                  NoPagination)
  /\ filtered' = ShareFile_list_tables_in_schema(file, recipient_id, share_name, schema_name)
  /\ ret' = LET found == find(filtered', table_name)
            IN  IF found.some THEN Ok(found.v) ELSE not_found
  /\ pc' = "returned"
  /\ UNCHANGED <<shares, config, disk, tasks, builder, query>>

\* the listing operation named op, called with the scope of c and pagination p
Listing(op, c, p) ==
  CASE op = "list_shares" -> list_shares(c.recipient, p)
    [] op = "list_schemas" -> list_schemas(c.share_name, c.recipient, p)
    [] op = "list_tables_in_share" -> list_tables_in_share(c.share_name, c.recipient, p)
    [] op = "list_tables_in_schema" ->
         list_tables_in_schema(c.share_name, c.schema_name, c.recipient, p)

ListingOps == {"list_shares", "list_schemas", "list_tables_in_share", "list_tables_in_schema"}

(***************************************************************************)
(* Callers.  A single call from the idle state; a paging client that       *)
(* starts without a token and passes each next_page_token back until none  *)
(* is returned (tests/catalog.rs, list_shares_pagination); and the caller  *)
(* taking the result, after which the next call can be made.               *)
(***************************************************************************)
CallListShares ==
  /\ pc = "idle"
  /\ \E r \in Recipients, p \in Paginations : list_shares(r, p)
  /\ trav' = Idle

CallGetShare ==
  /\ pc = "idle"
  /\ \E s \in ShareNames, r \in Recipients : get_share(s, r)
  /\ trav' = Idle

CallListSchemas ==
  /\ pc = "idle"
  /\ \E s \in ShareNames, r \in Recipients, p \in Paginations : list_schemas(s, r, p)
  /\ trav' = Idle

CallListTablesInShare ==
  /\ pc = "idle"
  /\ \E s \in ShareNames, r \in Recipients, p \in Paginations :
       list_tables_in_share(s, r, p)
  /\ trav' = Idle

CallListTablesInSchema ==
  /\ pc = "idle"
  /\ \E s \in ShareNames, c \in SchemaNames, r \in Recipients, p \in Paginations :
       list_tables_in_schema(s, c, r, p)
  /\ trav' = Idle

CallGetTable ==
  /\ pc = "idle"
  /\ \E s \in ShareNames, c \in SchemaNames, t \in TableNames, r \in Recipients :
       get_table(s, c, t, r)
  /\ trav' = Idle

PageItems(r) == IF r.kind = "Ok" THEN r.v.items ELSE << >>

FirstPage ==
  /\ pc = "idle"
  /\ \E op \in ListingOps, s \in ShareNames, c \in SchemaNames, r \in Recipients,
        m \in MaxResults :
       /\ op = "list_shares" => s = "share1"
       /\ op # "list_tables_in_schema" => c = "schema1"
       /\ Listing(op, Call(op, s, c, NoArg, r, NoPagination), Pagination_new(m, None))
  /\ trav' = [active |-> TRUE, items |-> PageItems(ret'), calls |-> 1]

NextPage ==
  /\ pc = "returned"
  /\ trav.active
  /\ trav.calls < MaxCalls
  /\ ret.kind = "Ok"
  /\ ret.v.next_page_token.some
  /\ Listing(call.op, call,
             Pagination_new(call.pagination.max_results, ret.v.next_page_token))
  /\ trav' = [active |-> TRUE, items |-> trav.items \o PageItems(ret'),
              calls |-> trav.calls + 1]

TakeResult ==
  /\ pc = "returned"
  /\ pc' = "idle"
  /\ call' = NoCall
  /\ filtered' = << >>
  /\ ret' = NoRet
  /\ trav' = Idle
  /\ UNCHANGED <<shares, config, disk, tasks, builder, query>>

Next ==
  \/ CallListShares
  \/ CallGetShare
  \/ CallListSchemas
  \/ CallListTablesInShare
  \/ CallListTablesInSchema
  \/ CallGetTable
  \/ FirstPage
  \/ NextPage
  \/ TakeResult

Spec == Init /\ [][Next]_vars

(***************************************************************************)
(* Construction.  Before new is called there is no instance: pc is        *)
(* "start" and shares holds nothing a caller can reach.  new is given a    *)
(* configuration, kept in config, and either returns the instance (pc      *)
(* "idle") or panics (pc "panicked"); the six operations need an instance. *)
(***************************************************************************)
NoConfig == [path |-> NoArg, format |-> NoArg]

InitLoad ==
  /\ shares = ShareFile_new
  /\ pc = "start"
  /\ call = NoCall
  /\ filtered = << >>
  /\ ret = NoRet
  /\ trav = Idle
  /\ config = NoConfig
  /\ disk \in Disks
  /\ tasks = NoTasks
  /\ query = NoQuery
  /\ builder = NoBuilder

\* FileCatalog::new(cfg), reading the file system as it is
New ==
  /\ pc = "start"
  /\ \E cfg \in Configs :
       LET this == FileCatalog_new(cfg, disk)
       IN  /\ config' = cfg
           /\ IF this = Panic
                THEN pc' = "panicked" /\ UNCHANGED shares
                ELSE pc' = "idle" /\ shares' = this.shares
  /\ UNCHANGED <<call, filtered, ret, trav, disk, tasks, builder, query>>

NextLoad ==
  \/ New
  \/ CallGetShare
  \/ CallListShares
  \/ TakeResult

SpecLoad == InitLoad /\ [][NextLoad]_vars

(***************************************************************************)
(* One document in the three formats (tests/catalog.rs: yaml_file_catalog, *)
(* json_file_catalog, toml_file_catalog).  The file holds one of a few     *)
(* documents in one of the syntaxes; after new, the six operations are     *)
(* called as in Spec.                                                      *)
(***************************************************************************)
FormatDocuments ==
  { [shares |-> << >>],
    [shares |-> << ShareCfg("share1", None,
                            << SchemaCfg("schema1",
                                 << TableCfg("table1", "s3://bucket/prefix1", None, None) >>) >>,
                            None) >>],
    [shares |-> << ShareCfg("share1", None, SchemasA, None),
                   ShareCfg("share2", Some(<<"client1", AnonymousId>>), SchemasA, None) >>],
    [shares |-> << ShareCfg("share1", Some(<<"client1">>), SchemasB, Some([foo |-> "bar"])),
                   ShareCfg("share2", None, SchemasB, Some([foo |-> "bar"])),
                   ShareCfg("share1", Some(<< >>), SchemasA, None) >>] }

\* the syntax a document is written in for a format
syntax_of(format) ==
  CASE format = "Json" -> "json"
    [] format = "Yaml" -> "yaml"
    [] format = "Toml" -> "toml"

\* the file system that holds the document at the path, written for format
expressed(doc, path, format) ==
  [q \in Paths |-> IF q = path THEN Some([syntax |-> syntax_of(format), doc |-> doc])
                   ELSE None]

InitFormats ==
  /\ shares = ShareFile_new
  /\ pc = "start"
  /\ call = NoCall
  /\ filtered = << >>
  /\ ret = NoRet
  /\ trav = Idle
  /\ config = NoConfig
  /\ disk \in { expressed(doc, "shares.yaml", f) : doc \in FormatDocuments, f \in FileFormats }
  /\ tasks = NoTasks
  /\ query = NoQuery
  /\ builder = NoBuilder

NextFormats ==
  \/ New
  \/ CallListShares
  \/ CallGetShare
  \/ CallListSchemas
  \/ CallListTablesInShare
  \/ CallListTablesInSchema
  \/ CallGetTable
  \/ TakeResult

SpecFormats == InitFormats /\ [][NextFormats]_vars

(***************************************************************************)
(* paginate_response on its own (catalog/file/mod.rs): a vector of up to   *)
(* MaxItems items, every offset of the machine word as the token, and the  *)
(* limits of the other specifications together with the largest ones.      *)
(***************************************************************************)
MaxItems == 3

WideMaxResults == MaxResults \cup { Some(USIZE_MAX - 1), Some(USIZE_MAX) }

InitPaginate ==
  /\ shares = ShareFile_new
  /\ pc = "idle"
  /\ call = NoCall
  /\ filtered = << >>
  /\ ret = NoRet
  /\ trav = Idle
  /\ config = NoConfig
  /\ disk = [path \in Paths |-> None]
  /\ tasks = NoTasks
  /\ query = NoQuery
  /\ builder = NoBuilder

Paginate ==
  /\ pc = "idle"
  /\ \E n \in 0..MaxItems, offset \in 0..USIZE_MAX, max_results \in WideMaxResults,
        overflow_checks \in BOOLEAN :
       /\ filtered' = [i \in 1..n |-> i]
       /\ call' = Call("paginate_response", NoArg, NoArg, NoArg, NoArg,
                       Pagination_new(max_results, Some(to_string(offset))))
       /\ ret' = paginate_response(filtered', call'.pagination, overflow_checks)
  /\ pc' = "returned"
  /\ UNCHANGED <<shares, trav, config, disk, tasks, builder, query>>

NextPaginate == Paginate \/ TakeResult

SpecPaginate == InitPaginate /\ [][NextPaginate]_vars

(***************************************************************************)
(* Callers that share one instance (trait Catalog: Send + Sync; the        *)
(* operations take &self).  A call is two steps, as its body is two        *)
(* statements: the read of the snapshot into a local vector, and the       *)
(* answer computed from the local.  The steps of different callers         *)
(* interleave freely.                                                      *)
(***************************************************************************)
\* the calls the callers choose from: every operation, two recipients for
\* one listing, a continued page and a malformed token
Requests ==
  { Call("list_shares", NoArg, NoArg, NoArg, "client1", Pagination_new(Some(1), None)),
    Call("list_shares", NoArg, NoArg, NoArg, AnonymousId, Pagination_new(Some(1), None)),
    Call("get_share", "share1", NoArg, NoArg, AnonymousId, NoPagination),
    Call("list_schemas", "share1", NoArg, NoArg, "client1",
         Pagination_new(None, Some(<<"-", "1">>))),
    Call("list_tables_in_share", "share1", NoArg, NoArg, "client1",
         Pagination_new(Some(2), Some(<<"2">>))),
    Call("list_tables_in_schema", "share2", "schema1", NoArg, AnonymousId, NoPagination),
    Call("get_table", "share1", "schema1", "table1", "client1", NoPagination) }

\* first statement of the operation of call c: self.file().list_*(..)
read(c) ==
  CASE c.op \in {"list_shares", "get_share"} -> ShareFile_list_shares(file, c.recipient)
    [] c.op = "list_schemas" -> ShareFile_list_schemas(file, c.recipient, c.share_name)
    [] c.op = "list_tables_in_share" ->
         ShareFile_list_tables_in_share(file, c.recipient, c.share_name)
    [] c.op \in {"list_tables_in_schema", "get_table"} ->
         ShareFile_list_tables_in_schema(file, c.recipient, c.share_name, c.schema_name)

\* second statement: the page of the local vector, or the entity found in it
answer(c, local, overflow_checks) ==
  CASE c.op \in ListingOps -> paginate_response(local, c.pagination, overflow_checks)
    [] c.op = "get_share" ->
         LET found == find(local, c.share_name)
         IN  IF found.some THEN Ok(found.v) ELSE not_found
    [] c.op = "get_table" ->
         LET found == find(local, c.table_name)
         IN  IF found.some THEN Ok(found.v) ELSE not_found

\* mutant: the read drains the vector of shares it iterates
scan_draining(t, c) ==
  /\ tasks[t].pc = "idle"
  /\ tasks' = [tasks EXCEPT ![t] = [pc |-> "scanned", call |-> c,
                                    filtered |-> read(c), ret |-> NoRet]]
  /\ shares' = IF Len(shares) > 0 THEN Tail(shares) ELSE shares
  /\ UNCHANGED <<pc, call, filtered, ret, trav, config, disk, builder, query>>

scan(t, c) ==
  /\ tasks[t].pc = "idle"
  /\ tasks' = [tasks EXCEPT ![t] = [pc |-> "scanned", call |-> c,
                                    filtered |-> read(c), ret |-> NoRet]]
  /\ UNCHANGED <<shares, pc, call, filtered, ret, trav, config, disk, builder, query>>

\* mutant: the vector is kept in a buffer that the calls of one operation
\* share, so a call answers from the vector read last
respond_shared_buffer(t) ==
  /\ tasks[t].pc = "scanned"
  /\ \E overflow_checks \in BOOLEAN :
       LET others == { u \in Tasks : /\ u # t
                                     /\ tasks[u].pc = "scanned"
                                     /\ tasks[u].call.op = tasks[t].call.op }
           local == IF others = {} THEN tasks[t].filtered
                    ELSE tasks[CHOOSE u \in others : TRUE].filtered
       IN  tasks' = [tasks EXCEPT ![t].pc = "returned",
                                  ![t].ret = answer(tasks[t].call, local, overflow_checks)]
  /\ UNCHANGED <<shares, pc, call, filtered, ret, trav, config, disk, builder, query>>

respond(t) ==
  /\ tasks[t].pc = "scanned"
  /\ \E overflow_checks \in BOOLEAN :
       tasks' = [tasks EXCEPT ![t].pc = "returned",
                              ![t].ret = answer(tasks[t].call, tasks[t].filtered,
                                                overflow_checks)]
  /\ UNCHANGED <<shares, pc, call, filtered, ret, trav, config, disk, builder, query>>

\* the caller takes the result and is free to call again
take(t) ==
  /\ tasks[t].pc = "returned"
  /\ tasks' = [tasks EXCEPT ![t] = IdleTask]
  /\ UNCHANGED <<shares, pc, call, filtered, ret, trav, config, disk, builder, query>>

TaskScan == \E t \in Tasks, c \in Requests : scan(t, c)

TaskRespond == \E t \in Tasks : respond(t)

TaskTake == \E t \in Tasks : take(t)

NextTasks ==
  \/ TaskScan
  \/ TaskRespond
  \/ TaskTake

SpecTasks == Init /\ [][NextTasks]_vars

(***************************************************************************)
(* The builders in use (catalog/mod.rs).  A builder takes setter calls in  *)
(* any number and order and is consumed by build().  Beside the builder,   *)
(* the state records what the caller asked for: last gives, per field, the *)
(* value of the last setter call for it, and ext the extension expected    *)
(* under each key.                                                         *)
(***************************************************************************)
Strings == {"a", "b"}

OptStrings == { None } \cup { Some(x) : x \in Strings }

ExtKeys == {"foo", "qux"}

ExtValues == {"bar", "quux"}

ExtensionArgs ==
  { None, Some(HashMap_new), Some([foo |-> "bar"]), Some([foo |-> "quux", qux |-> "bar"]) }

\* the calls of the setters named in fns, of both forms
SetterCalls(fns) ==
  { [fn |-> f, arg |-> x] : f \in fns, x \in Strings }
    \cup { [fn |-> "set_" \o f, arg |-> o] : f \in fns, o \in OptStrings }

ExtensionCalls ==
  { [fn |-> "add_extension", key |-> k, value |-> v] : k \in ExtKeys, v \in ExtValues }
    \cup { [fn |-> "set_extensions", arg |-> e] : e \in ExtensionArgs }

ShareSetters == SetterCalls({"id", "name"}) \cup ExtensionCalls

SchemaSetters == SetterCalls({"id", "share_id", "name", "share_name"})

TableSetters ==
  SetterCalls({"share_id", "schema_id", "id", "share_name", "schema_name", "name",
               "storage_path"}) \cup ExtensionCalls

ShareBuilder_call(b, s) ==
  CASE s.fn = "id" -> ShareBuilder_id(b, s.arg)
    [] s.fn = "set_id" -> ShareBuilder_set_id(b, s.arg)
    [] s.fn = "name" -> ShareBuilder_name(b, s.arg)
    [] s.fn = "set_name" -> ShareBuilder_set_name(b, s.arg)
    [] s.fn = "add_extension" -> ShareBuilder_add_extension(b, s.key, s.value)
    [] s.fn = "set_extensions" -> ShareBuilder_set_extensions(b, s.arg)

SchemaBuilder_call(b, s) ==
  CASE s.fn = "id" -> SchemaBuilder_id(b, s.arg)
    [] s.fn = "set_id" -> SchemaBuilder_set_id(b, s.arg)
    [] s.fn = "share_id" -> SchemaBuilder_share_id(b, s.arg)
    [] s.fn = "set_share_id" -> SchemaBuilder_set_share_id(b, s.arg)
    [] s.fn = "name" -> SchemaBuilder_name(b, s.arg)
    [] s.fn = "set_name" -> SchemaBuilder_set_name(b, s.arg)
    [] s.fn = "share_name" -> SchemaBuilder_share_name(b, s.arg)
    [] s.fn = "set_share_name" -> SchemaBuilder_set_share_name(b, s.arg)

TableBuilder_call(b, s) ==
  CASE s.fn = "share_id" -> TableBuilder_share_id(b, s.arg)
    [] s.fn = "set_share_id" -> TableBuilder_set_share_id(b, s.arg)
    [] s.fn = "schema_id" -> TableBuilder_schema_id(b, s.arg)
    [] s.fn = "set_schema_id" -> TableBuilder_set_schema_id(b, s.arg)
    [] s.fn = "id" -> TableBuilder_id(b, s.arg)
    [] s.fn = "set_id" -> TableBuilder_set_id(b, s.arg)
    [] s.fn = "share_name" -> TableBuilder_share_name(b, s.arg)
    [] s.fn = "set_share_name" -> TableBuilder_set_share_name(b, s.arg)
    [] s.fn = "schema_name" -> TableBuilder_schema_name(b, s.arg)
    [] s.fn = "set_schema_name" -> TableBuilder_set_schema_name(b, s.arg)
    [] s.fn = "name" -> TableBuilder_name(b, s.arg)
    [] s.fn = "set_name" -> TableBuilder_set_name(b, s.arg)
    [] s.fn = "storage_path" -> TableBuilder_storage_path(b, s.arg)
    [] s.fn = "set_storage_path" -> TableBuilder_set_storage_path(b, s.arg)
    [] s.fn = "add_extension" -> TableBuilder_add_extension(b, s.key, s.value)
    [] s.fn = "set_extensions" -> TableBuilder_set_extensions(b, s.arg)

Fields == {"id", "share_id", "schema_id", "name", "share_name", "schema_name", "storage_path"}

\* what the caller asked for after the setter call s
Asked(last, s) ==
  IF s.fn \in Fields THEN [last EXCEPT ![s.fn] = Some(s.arg)]
  ELSE IF s.fn \in { "set_" \o f : f \in Fields }
    THEN [last EXCEPT ![CHOOSE f \in Fields : s.fn = "set_" \o f] = s.arg]
  ELSE last

AskedExt(ext, s) ==
  IF s.fn = "add_extension" THEN [ext EXCEPT ![s.key] = Some(s.value)]
  ELSE IF s.fn = "set_extensions"
    THEN [k \in ExtKeys |-> IF s.arg # None /\ k \in DOMAIN s.arg.v
                               THEN Some(s.arg.v[k]) ELSE None]
  ELSE ext

\* the argument of the last set_extensions call, and the values added
\* under each key since that call
LastSet(set_, s) == IF s.fn = "set_extensions" THEN Some(s.arg) ELSE set_

AddedSince(added, s) ==
  IF s.fn = "set_extensions" THEN [k \in ExtKeys |-> None]
  ELSE IF s.fn = "add_extension" THEN [added EXCEPT ![s.key] = Some(s.value)]
  ELSE added

Builder(kind, b) ==
  [kind |-> kind, b |-> b, last |-> [f \in Fields |-> None],
   ext |-> [k \in ExtKeys |-> None], set |-> None,
   added |-> [k \in ExtKeys |-> None], out |-> NoRet]

InitBuilder ==
  /\ shares = ShareFile_new
  /\ pc = "idle"
  /\ call = NoCall
  /\ filtered = << >>
  /\ ret = NoRet
  /\ trav = Idle
  /\ config = NoConfig
  /\ disk = [path \in Paths |-> None]
  /\ tasks = NoTasks
  /\ query = NoQuery
  /\ builder \in { Builder("share", ShareBuilder_new),
                   Builder("schema", SchemaBuilder_new),
                   Builder("table", TableBuilder_new) }

ShareBuilderSet ==
  /\ builder.kind = "share"
  /\ builder.out = NoRet
  /\ \E s \in ShareSetters :
       builder' = [builder EXCEPT !.b = ShareBuilder_call(builder.b, s),
                                  !.last = Asked(builder.last, s),
                                  !.ext = AskedExt(builder.ext, s),
                                  !.set = LastSet(builder.set, s),
                                  !.added = AddedSince(builder.added, s)]
  /\ UNCHANGED <<shares, pc, call, filtered, ret, trav, config, disk, tasks, query>>

ShareBuilderBuild ==
  /\ builder.kind = "share"
  /\ builder.out = NoRet
  /\ builder' = [builder EXCEPT !.out = ShareBuilder_build(builder.b)]
  /\ UNCHANGED <<shares, pc, call, filtered, ret, trav, config, disk, tasks, query>>

SchemaBuilderSet ==
  /\ builder.kind = "schema"
  /\ builder.out = NoRet
  /\ \E s \in SchemaSetters :
       builder' = [builder EXCEPT !.b = SchemaBuilder_call(builder.b, s),
                                  !.last = Asked(builder.last, s),
                                  !.ext = AskedExt(builder.ext, s),
                                  !.set = LastSet(builder.set, s),
                                  !.added = AddedSince(builder.added, s)]
  /\ UNCHANGED <<shares, pc, call, filtered, ret, trav, config, disk, tasks, query>>

SchemaBuilderBuild ==
  /\ builder.kind = "schema"
  /\ builder.out = NoRet
  /\ builder' = [builder EXCEPT !.out = SchemaBuilder_build(builder.b)]
  /\ UNCHANGED <<shares, pc, call, filtered, ret, trav, config, disk, tasks, query>>

TableBuilderSet ==
  /\ builder.kind = "table"
  /\ builder.out = NoRet
  /\ \E s \in TableSetters :
       builder' = [builder EXCEPT !.b = TableBuilder_call(builder.b, s),
                                  !.last = Asked(builder.last, s),
                                  !.ext = AskedExt(builder.ext, s),
                                  !.set = LastSet(builder.set, s),
                                  !.added = AddedSince(builder.added, s)]
  /\ UNCHANGED <<shares, pc, call, filtered, ret, trav, config, disk, tasks, query>>

TableBuilderBuild ==
  /\ builder.kind = "table"
  /\ builder.out = NoRet
  /\ builder' = [builder EXCEPT !.out = TableBuilder_build(builder.b)]
  /\ UNCHANGED <<shares, pc, call, filtered, ret, trav, config, disk, tasks, query>>

NextBuilder ==
  \/ ShareBuilderSet
  \/ ShareBuilderBuild
  \/ SchemaBuilderSet
  \/ SchemaBuilderBuild
  \/ TableBuilderSet
  \/ TableBuilderBuild

SpecBuilder == InitBuilder /\ [][NextBuilder]_vars

(***************************************************************************)
(* The table query handler (server/routers/shares/schemas/tables/          *)
(* query.rs).  One request is handled at a time; every await of the        *)
(* handler is a step.  The table service and the Delta table reader are    *)
(* external: a call of theirs fails or succeeds, and a successful load     *)
(* leaves the table at a version of its log.                               *)
(***************************************************************************)
\* the latest version a table's log may have
MaxVersion == 2

HEADER_NAME == "Delta-Table-Version"

CONTENT_TYPE == "content-type"

\* Utc.datetime_from_str(text, "%Y/%m/%d %H:%M:%S"): the instant (in days
\* of the month) of a text in that format, an error for any other text
datetime_from_str(text) ==
  CASE text = "2023/01/01 00:00:00" -> Ok(1)
    [] text = "2023/01/02 00:00:00" -> Ok(2)
    [] OTHER -> Err("ParseError")

Timestamps == {"2023/01/01 00:00:00", "2023/01/02 00:00:00", "2023-01-01T00:00:00Z"}

\* SharesSchemasTablesQueryPostRequest: version and timestamp
Payloads ==
  [version : { None } \cup { Some(v) : v \in (0 - 1)..(MaxVersion + 1) },
   timestamp : { None } \cup { Some(t) : t \in Timestamps }]

\* DeltaTable::load_version(version): the table at that version of its log,
\* or an error when the log has no such version
load_version(table, version) ==
  IF version \in 0..table.latest THEN Ok([table EXCEPT !.version = version])
  ELSE Err("DeltaTableError")

\* the errors of the handler
ValidationFailed == Err("ValidationFailed")

NotFound == Err("NotFound")

anyhow == Err("anyhow")

\* a request the handler has taken up
Received(payload) ==
  [pc |-> "received", payload |-> payload, timestamp |-> None, table |-> None,
   loads |-> << >>, failed |-> None, headers |-> None, handed |-> None,
   response |-> None]

\* the handler returns Err(e) from step
Abort(q, step, e) == [q EXCEPT !.pc = "error", !.failed = Some(step), !.response = Some(e)]

InitQuery ==
  /\ shares = ShareFile_new
  /\ pc = "idle"
  /\ call = NoCall
  /\ filtered = << >>
  /\ ret = NoRet
  /\ trav = Idle
  /\ config = NoConfig
  /\ disk = [path \in Paths |-> None]
  /\ tasks = NoTasks
  /\ query = NoQuery
  /\ builder = NoBuilder

\* a request arrives
QueryPost ==
  /\ query.pc = "none"
  /\ \E payload \in Payloads : query' = Received(payload)
  /\ UNCHANGED <<shares, pc, call, filtered, ret, trav, config, disk, tasks, builder>>

\* the timestamp is parsed and the three names are validated
QueryValidate ==
  /\ query.pc = "received"
  /\ \E names_valid \in BOOLEAN :
       LET parsed == IF query.payload.timestamp.some
                       THEN datetime_from_str(query.payload.timestamp.v)
                       ELSE Ok(0)
       IN  query' =
             IF query.payload.timestamp.some /\ parsed.kind # "Ok"
               THEN Abort(query, "datetime_from_str", ValidationFailed)
             ELSE IF ~names_valid THEN Abort(query, "Name::new", ValidationFailed)
             ELSE [query EXCEPT !.pc = "validated",
                                !.timestamp = IF query.payload.timestamp.some
                                                THEN Some(parsed.v) ELSE None]
  /\ UNCHANGED <<shares, pc, call, filtered, ret, trav, config, disk, tasks, builder>>

\* TableService::query_by_fqn(..).await
QuerySelect ==
  /\ query.pc = "validated"
  /\ \E found \in {"Err", "None", "Some"} :
       query' = CASE found = "Err" -> Abort(query, "query_by_fqn", anyhow)
                  [] found = "None" -> Abort(query, "query_by_fqn", NotFound)
                  [] found = "Some" -> [query EXCEPT !.pc = "selected"]
  /\ UNCHANGED <<shares, pc, call, filtered, ret, trav, config, disk, tasks, builder>>

\* DeltalakeUtility::open_table(&table.location).await: the table at the
\* latest version of its log
QueryOpen ==
  /\ query.pc = "selected"
  /\ \/ query' = Abort(query, "open_table", anyhow)
     \/ \E latest \in 0..MaxVersion :
          query' = [query EXCEPT !.pc = "opened",
                                 !.table = Some([version |-> latest, latest |-> latest])]
  /\ UNCHANGED <<shares, pc, call, filtered, ret, trav, config, disk, tasks, builder>>

\* if let Some(timestamp): table.load_with_datetime(timestamp).await, which
\* fails or leaves the table at the version the reader finds for the instant
QueryLoadWithDatetime ==
  /\ query.pc = "opened"
  /\ IF query.timestamp = None
       THEN query' = [query EXCEPT !.pc = "travelled"]
       ELSE \/ query' = Abort(query, "load_with_datetime", anyhow)
            \/ \E version \in 0..query.table.v.latest :
                 query' = [query EXCEPT
                             !.pc = "travelled",
                             !.table = Some(load_version(query.table.v, version).v),
                             !.loads = Append(query.loads, "load_with_datetime")]
  /\ UNCHANGED <<shares, pc, call, filtered, ret, trav, config, disk, tasks, builder>>

\* mutant: a request with a timestamp does not load the version
QueryLoadVersion_timestamp_wins ==
  /\ query.pc = "travelled"
  /\ IF query.payload.version = None \/ query.timestamp # None
       THEN query' = [query EXCEPT !.pc = "loaded"]
       ELSE \/ query' = Abort(query, "load_version", anyhow)
            \/ /\ load_version(query.table.v, query.payload.version.v).kind = "Ok"
               /\ query' = [query EXCEPT
                              !.pc = "loaded",
                              !.table = Some(load_version(query.table.v,
                                                          query.payload.version.v).v),
                              !.loads = Append(query.loads, "load_version")]
  /\ UNCHANGED <<shares, pc, call, filtered, ret, trav, config, disk, tasks, builder>>

\* if let Some(version): table.load_version(*version).await
QueryLoadVersion ==
  /\ query.pc = "travelled"
  /\ IF query.payload.version = None
       THEN query' = [query EXCEPT !.pc = "loaded"]
       ELSE \/ query' = Abort(query, "load_version", anyhow)
            \/ /\ load_version(query.table.v, query.payload.version.v).kind = "Ok"
               /\ query' = [query EXCEPT
                              !.pc = "loaded",
                              !.table = Some(load_version(query.table.v,
                                                          query.payload.version.v).v),
                              !.loads = Append(query.loads, "load_version")]
  /\ UNCHANGED <<shares, pc, call, filtered, ret, trav, config, disk, tasks, builder>>

\* the headers are built from the table, the table is handed to
\* DeltalakeService::load_files, and todo!() panics
QueryHeaders ==
  /\ query.pc = "loaded"
  /\ query' = [query EXCEPT
                 !.pc = "panicked",
                 !.headers = Some([h \in {HEADER_NAME, CONTENT_TYPE} |->
                                     IF h = HEADER_NAME
                                       THEN to_string(query.table.v.version)
                                       ELSE <<"application/x-ndjson">>]),
                 !.handed = query.table]
  /\ UNCHANGED <<shares, pc, call, filtered, ret, trav, config, disk, tasks, builder>>

\* the request is over
QueryDone ==
  /\ query.pc \in {"error", "panicked"}
  /\ query' = NoQuery
  /\ UNCHANGED <<shares, pc, call, filtered, ret, trav, config, disk, tasks, builder>>

NextQuery ==
  \/ QueryPost
  \/ QueryValidate
  \/ QuerySelect
  \/ QueryOpen
  \/ QueryLoadWithDatetime
  \/ QueryLoadVersion
  \/ QueryHeaders
  \/ QueryDone

SpecQuery == InitQuery /\ [][NextQuery]_vars

(***************************************************************************)
(* Reference definitions the claims are stated with.                       *)
(***************************************************************************)
\* the share rule: no recipients list, or r is a member of the list
Visible(cfg, r) ==
  \/ cfg.recipients = None
  \/ /\ cfg.recipients # None
     /\ r \in { cfg.recipients.v[i] : i \in DOMAIN cfg.recipients.v }

ShareOf(cfg) == [id |-> None, name |-> cfg.name, extensions |-> cfg.extensions]

SchemaOf(schema_cfg, s) ==
  [id |-> None, name |-> schema_cfg.name, share_name |-> s, extensions |-> None]

TableOf(table_cfg, s, c) ==
  [id |-> table_cfg.id, name |-> table_cfg.name, share_id |-> None,
   share_name |-> s, schema_name |-> c, storage_location |-> table_cfg.location,
   extensions |-> table_cfg.extensions]

\* number of times e occurs in the sequence
Count(seq, e) == Cardinality({ k \in DOMAIN seq : seq[k] = e })

Elems(seq) == { seq[k] : k \in DOMAIN seq }

\* positions of the schemas and tables declared in the snapshot
SchemaPos ==
  UNION { { <<i, j>> : j \in 1..Len(shares[i].schemas) } : i \in 1..Len(shares) }

TablePos ==
  UNION { { <<p[1], p[2], k>> : k \in 1..Len(shares[p[1]].schemas[p[2]].tables) } :
          p \in SchemaPos }

\* the positions declared under a share named s that is visible to r
VisibleShares(s, r) ==
  { i \in 1..Len(shares) : shares[i].name = s /\ Visible(shares[i], r) }

\* a call of a listing operation whose page is the complete result
Unpaginated(op) ==
  /\ pc = "returned"
  /\ call.op = op
  /\ call.pagination = NoPagination

\* C1: after list_shares(r) without pagination, the page holds the shares of
\* the snapshot that declare no recipients list or list r, each as often as
\* it is declared, and no other share.
C1_ListSharesIffVisible ==
  Unpaginated("list_shares") =>
    /\ ret.kind = "Ok"
    /\ ret.v.items = filtered
    /\ \A e \in Elems(ret.v.items) \cup { ShareOf(shares[i]) : i \in 1..Len(shares) } :
         Count(ret.v.items, e) =
           Cardinality({ i \in 1..Len(shares) :
                           Visible(shares[i], call.recipient) /\ ShareOf(shares[i]) = e })

\* C1 witness: a named recipient lists a catalog with a share restricted to
\* it and a share it may not see, and gets a page that leaves one out.
C1_Witness ==
  /\ Unpaginated("list_shares")
  /\ call.recipient = "client1"
  /\ \E i, j \in 1..Len(shares) :
       /\ shares[i].recipients # None /\ Visible(shares[i], call.recipient)
       /\ ~Visible(shares[j], call.recipient)
  /\ ret.kind = "Ok"
  /\ Len(ret.v.items) = 1

\* C2 as claimed: the anonymous recipient is listed exactly the shares that
\* declare no recipients list, whatever a declared list contains.
C2_AnonymousOnlyUndeclared ==
  (Unpaginated("list_shares") /\ call.recipient = AnonymousId) =>
    /\ ret.kind = "Ok"
    /\ \A e \in Elems(ret.v.items) \cup { ShareOf(shares[i]) : i \in 1..Len(shares) } :
         Count(ret.v.items, e) =
           Cardinality({ i \in 1..Len(shares) :
                           shares[i].recipients = None /\ ShareOf(shares[i]) = e })

\* C2 amended: the anonymous recipient is listed the shares that declare no
\* recipients list and the shares whose list names the anonymous sentinel
\* string itself; every other share with a declared list is absent.
C2_AnonymousUnlessNamed ==
  (Unpaginated("list_shares") /\ call.recipient = AnonymousId) =>
    /\ ret.kind = "Ok"
    /\ \A e \in Elems(ret.v.items) \cup { ShareOf(shares[i]) : i \in 1..Len(shares) } :
         Count(ret.v.items, e) =
           Cardinality({ i \in 1..Len(shares) :
                           /\ \/ shares[i].recipients = None
                              \/ /\ shares[i].recipients # None
                                 /\ \E k \in DOMAIN shares[i].recipients.v :
                                      shares[i].recipients.v[k] = AnonymousId
                           /\ ShareOf(shares[i]) = e })

\* C2 witness: the anonymous recipient lists a catalog that has a share with
\* an empty list, a share restricted to a named recipient and a share whose
\* list names the sentinel.
C2_Witness ==
  /\ Unpaginated("list_shares")
  /\ call.recipient = AnonymousId
  /\ \E i, j \in 1..Len(shares) :
       /\ shares[i].recipients = Some(<<"client1", AnonymousId>>)
       /\ shares[j].recipients \in { Some(<< >>), Some(<<"client1">>) }
  /\ ret.kind = "Ok"
  /\ Len(ret.v.items) = 1

\* C3: the schemas and tables a listing under share name s returns for r are
\* those declared under the shares named s that are visible to r (for
\* list_tables_in_schema: in their schemas named c), each as often as it is
\* declared there, and nothing else.
C3_VisibilityFromShare ==
  /\ Unpaginated("list_schemas") =>
       /\ ret.kind = "Ok"
       /\ ret.v.items = filtered
       /\ LET from == { p \in SchemaPos : p[1] \in VisibleShares(call.share_name, call.recipient) }
              ent(p) == SchemaOf(shares[p[1]].schemas[p[2]], call.share_name)
          IN  \A e \in Elems(ret.v.items) \cup { ent(p) : p \in from } :
                Count(ret.v.items, e) = Cardinality({ p \in from : ent(p) = e })
  /\ Unpaginated("list_tables_in_share") =>
       /\ ret.kind = "Ok"
       /\ ret.v.items = filtered
       /\ LET from == { p \in TablePos : p[1] \in VisibleShares(call.share_name, call.recipient) }
              ent(p) == TableOf(shares[p[1]].schemas[p[2]].tables[p[3]],
                                call.share_name, shares[p[1]].schemas[p[2]].name)
          IN  \A e \in Elems(ret.v.items) \cup { ent(p) : p \in from } :
                Count(ret.v.items, e) = Cardinality({ p \in from : ent(p) = e })
  /\ Unpaginated("list_tables_in_schema") =>
       /\ ret.kind = "Ok"
       /\ ret.v.items = filtered
       /\ LET from == { p \in TablePos :
                          /\ p[1] \in VisibleShares(call.share_name, call.recipient)
                          /\ shares[p[1]].schemas[p[2]].name = call.schema_name }
              ent(p) == TableOf(shares[p[1]].schemas[p[2]].tables[p[3]],
                                call.share_name, call.schema_name)
          IN  \A e \in Elems(ret.v.items) \cup { ent(p) : p \in from } :
                Count(ret.v.items, e) = Cardinality({ p \in from : ent(p) = e })

\* C3 witness: the catalog declares the share name twice, once visible to the
\* caller and once not, and the tables of the share are listed: only those
\* of the visible declaration come back.
C3_Witness ==
  /\ Unpaginated("list_tables_in_share")
  /\ Len(shares) = 2
  /\ shares[1].name = call.share_name
  /\ shares[2].name = call.share_name
  /\ ~Visible(shares[1], call.recipient)
  /\ Visible(shares[2], call.recipient)
  /\ ret.kind = "Ok"
  /\ Len(ret.v.items) = 3

\* the offset a listing call was given: 0 without a token, the parsed token
\* otherwise, None when the token does not parse
TokenOffset ==
  IF call.pagination.page_token = None THEN Some(0)
  ELSE parse_usize(call.pagination.page_token.v)

\* the limit a listing call was given
Limit ==
  IF call.pagination.max_results = None THEN DEFAULT_MAX_RESULTS
  ELSE call.pagination.max_results.v

ListingReturned == pc = "returned" /\ call.op \in ListingOps

EmptyLastPage == Ok(Page_new(<< >>, None))

\* C4: a client that starts without a token and passes each next_page_token
\* back, with max_results >= 1 (or the default), is never refused, and when
\* no token comes back the pages gathered, in order, are the filtered
\* sequence itself.
C4_PaginationRoundTrip ==
  (pc = "returned" /\ trav.active /\ Limit >= 1) =>
    /\ ret.kind = "Ok"
    /\ trav.calls < MaxCalls \/ ret.v.next_page_token = None
    /\ ret.v.next_page_token = None => trav.items = filtered

\* C4 witness: six tables were paged through two at a time in three calls.
C4_Witness ==
  /\ pc = "returned"
  /\ trav.active
  /\ call.pagination.max_results = Some(2)
  /\ trav.calls = 3
  /\ ret.kind = "Ok"
  /\ ret.v.next_page_token = None
  /\ Len(trav.items) = 6
  /\ trav.items = filtered

\* C5 as claimed: whenever the token parses, the call returns the page of the
\* reference slicing: from offset to the end without a token when
\* offset + limit >= length, the limit items from offset and the decimal
\* text of offset + limit otherwise.
C5_ReferenceSlicing ==
  (ListingReturned /\ TokenOffset # None) =>
    LET offset == TokenOffset.v
        n == Len(filtered)
    IN  /\ ret.kind = "Ok"
        /\ IF offset + Limit >= n
             THEN /\ ret.v.items =
                       [k \in 1..(IF n > offset THEN n - offset ELSE 0) |-> filtered[offset + k]]
                  /\ ret.v.next_page_token = None
             ELSE /\ ret.v.items = [k \in 1..Limit |-> filtered[offset + k]]
                  /\ ret.v.next_page_token = Some(to_string(offset + Limit))
        /\ Len(ret.v.items) <= Limit
        /\ ret.v.next_page_token # None => Len(ret.v.items) = Limit

\* C6: a listing call whose token is the length of the filtered sequence
\* returns an empty page without a next token, whatever max_results is.
C6_ExhaustedOffset ==
  (ListingReturned /\ TokenOffset = Some(Len(filtered))) => ret = EmptyLastPage

\* C6 witness: the token equals the length of a sequence of two or more
\* items, with max_results = 0.
C6_Witness ==
  /\ ListingReturned
  /\ call.pagination.page_token # None
  /\ TokenOffset = Some(Len(filtered))
  /\ Len(filtered) >= 2
  /\ call.pagination.max_results = Some(0)
  /\ ret = EmptyLastPage

\* C7 as claimed: a listing call whose token parses to an offset beyond the
\* length of the filtered sequence returns an empty page without a next token.
C7_OffsetBeyondLength ==
  (ListingReturned /\ TokenOffset # None /\ TokenOffset.v > Len(filtered)) =>
    ret = EmptyLastPage

\* the text of a non-negative integer in base 10: decimal digits, which may
\* follow a plus sign
DecimalText(t) ==
  LET body == IF Len(t) > 0 /\ t[1] = "+" THEN Tail(t) ELSE t
  IN  /\ Len(body) > 0
      /\ \A i \in 1..Len(body) :
           body[i] \in {"0", "1", "2", "3", "4", "5", "6", "7", "8", "9"}

\* C8: a listing call with a token that is not the decimal text of a
\* non-negative integer returns MalformedPagination, whatever the scope and
\* the filtered sequence are; a call without a token never does.
C8_MalformedToken ==
  ListingReturned =>
    /\ (call.pagination.page_token # None /\ ~DecimalText(call.pagination.page_token.v))
         => ret = malformed_pagination
    /\ call.pagination.page_token = None => ret.kind = "Ok"

\* C8 witness: a negative token is refused although the share named in the
\* call is not visible to the caller and nothing would be listed.
C8_Witness ==
  /\ ListingReturned
  /\ call.op = "list_schemas"
  /\ call.pagination.page_token = Some(<<"-", "1">>)
  /\ \E i \in 1..Len(shares) : shares[i].name = call.share_name
  /\ VisibleShares(call.share_name, call.recipient) = {}
  /\ filtered = << >>
  /\ ret = malformed_pagination

\* C9: get_share(name, r) returns a share of that name declared visible to r
\* when there is one, and ResourceNotFound otherwise, be it that no share has
\* the name or that none of that name is visible.
C9_GetShare ==
  (pc = "returned" /\ call.op = "get_share") =>
    IF VisibleShares(call.share_name, call.recipient) # {}
      THEN /\ ret.kind = "Ok"
           /\ ret.v.name = call.share_name
           /\ ret.v \in { ShareOf(shares[i]) :
                            i \in VisibleShares(call.share_name, call.recipient) }
      ELSE ret = not_found

\* C9 witness: the share exists, the caller may not see it, and the call
\* fails as for a share that does not exist.
C9_Witness ==
  /\ pc = "returned"
  /\ call.op = "get_share"
  /\ \E i \in 1..Len(shares) : shares[i].name = call.share_name
  /\ VisibleShares(call.share_name, call.recipient) = {}
  /\ ret = not_found

\* declared order of table positions
Before(p, q) ==
  \/ p[1] < q[1]
  \/ p[1] = q[1] /\ p[2] < q[2]
  \/ p[1] = q[1] /\ p[2] = q[2] /\ p[3] <= q[3]

\* the tables named t in the schemas named c of the shares named s visible to r
Matches(s, c, t, r) ==
  { p \in TablePos :
      /\ p[1] \in VisibleShares(s, r)
      /\ shares[p[1]].schemas[p[2]].name = c
      /\ shares[p[1]].schemas[p[2]].tables[p[3]].name = t }

\* C10: get_table fails with ResourceNotFound when no table of the name is
\* declared in a schema of the name under a visible share of the name;
\* otherwise it returns the first such table in declared order, under the
\* requested names and with the configured location as its storage path.
C10_GetTable ==
  (pc = "returned" /\ call.op = "get_table") =>
    LET m == Matches(call.share_name, call.schema_name, call.table_name, call.recipient)
    IN  IF m = {} THEN ret = not_found
        ELSE LET first == CHOOSE p \in m : \A q \in m : Before(p, q)
                 cfg == shares[first[1]].schemas[first[2]].tables[first[3]]
             IN  /\ ret.kind = "Ok"
                 /\ ret.v.share_name = call.share_name
                 /\ ret.v.schema_name = call.schema_name
                 /\ ret.v.name = call.table_name
                 /\ storage_path(ret.v) = cfg.location
                 /\ ret.v = TableOf(cfg, call.share_name, call.schema_name)

\* C10 witness: the table name is declared twice at different locations and
\* the call returns the location declared first.
C10_Witness ==
  /\ pc = "returned"
  /\ call.op = "get_table"
  /\ ret.kind = "Ok"
  /\ LET m == Matches(call.share_name, call.schema_name, call.table_name, call.recipient)
     IN  \E p, q \in m :
           /\ p # q
           /\ Before(p, q)
           /\ shares[p[1]].schemas[p[2]].tables[p[3]].location
                # shares[q[1]].schemas[q[2]].tables[q[3]].location
           /\ storage_path(ret.v) = shares[p[1]].schemas[p[2]].tables[p[3]].location

\* C11: an operation that returns an error returns ResourceNotFound when it
\* is get_share or get_table and MalformedPagination when it is one of the
\* four listings; no operation returns ResourceForbidden, for any snapshot,
\* recipient and argument.
C11_ErrorKinds ==
  (pc = "returned" /\ ret.kind = "Err") =>
    /\ ret.err # "ResourceForbidden"
    /\ call.op \in {"get_share", "get_table"} => ret.err = "ResourceNotFound"
    /\ call.op \in ListingOps => ret.err = "MalformedPagination"

\* C11 witness: get_share names a share that is declared but restricted to
\* another recipient, and the error returned is ResourceNotFound.
C11_Witness ==
  /\ pc = "returned"
  /\ call.op = "get_share"
  /\ call.recipient = "unauthorized-client"
  /\ \E i \in 1..Len(shares) :
       /\ shares[i].name = call.share_name
       /\ shares[i].recipients = Some(<<"client1">>)
  /\ ret.kind = "Err"
  /\ ret.err = "ResourceNotFound"

\* the result the call c returns when it runs alone on the snapshot
Alone(c) == answer(c, read(c), TRUE)

\* C12: two callers that hold the results of calls with identical operation,
\* scope, recipient and pagination hold identical results, whatever calls
\* were made and taken on the instance between the two.
C12_SameCallSameResult ==
  \A t, u \in Tasks :
    (/\ tasks[t].pc = "returned"
     /\ tasks[u].pc = "returned"
     /\ tasks[t].call = tasks[u].call) => tasks[t].ret = tasks[u].ret

\* C12 witness: two callers hold the same non-empty continued page of one
\* listing call.
C12_Witness ==
  \E t, u \in Tasks :
    /\ t # u
    /\ tasks[t].pc = "returned"
    /\ tasks[u].pc = "returned"
    /\ tasks[t].call = tasks[u].call
    /\ tasks[t].call.op = "list_tables_in_share"
    /\ tasks[t].ret.kind = "Ok"
    /\ Len(tasks[t].ret.v.items) = 2
    /\ tasks[t].ret.v.next_page_token # None
    /\ tasks[t].ret = tasks[u].ret

\* C14: whatever the interleaving of the callers' steps, a call returns the
\* result it returns when run alone: the same page and token, or the same
\* error.
C14_AsIfAlone ==
  \A t \in Tasks : tasks[t].pc = "returned" => tasks[t].ret = Alone(tasks[t].call)

\* C14 witness: a caller returns the page of list_shares for its recipient
\* while another caller, between its two steps, holds the different vector
\* read by list_shares for another recipient.
C14_Witness ==
  \E t, u \in Tasks :
    /\ tasks[t].pc = "returned"
    /\ tasks[u].pc = "scanned"
    /\ tasks[t].call.op = "list_shares"
    /\ tasks[u].call.op = "list_shares"
    /\ tasks[u].filtered # read(tasks[t].call)
    /\ tasks[t].ret.kind = "Ok"
    /\ Len(tasks[t].ret.v.items) = 1
    /\ tasks[t].ret = Alone(tasks[t].call)

\* C13: no step of the six operations, whether the call succeeds or fails,
\* changes the snapshot: the descriptors of shares, schemas and tables,
\* their order and the recipients lists are the same after every step.
C13_SnapshotUnchanged == [][shares' = shares]_vars

\* C13 witness: after a get_table that failed on a share the caller may not
\* see, the instance still holds the two shares it was constructed from.
C13_Witness ==
  /\ pc = "returned"
  /\ call.op = "get_table"
  /\ ret = not_found
  /\ Len(shares) = 2
  /\ \E i \in 1..Len(shares) :
       shares[i].name = call.share_name /\ ~Visible(shares[i], call.recipient)
  /\ shares = disk["shares.yaml"].v.doc.shares

\* declared order of schema positions
BeforeSchema(p, q) == p[1] < q[1] \/ (p[1] = q[1] /\ p[2] <= q[2])

\* C15: an unpaginated listing returns the declared entities that pass the
\* recipient filter in declared order: the k-th item is the k-th visible
\* share of the document, the k-th schema of the visible shares of the name,
\* or the k-th table of their schemas, schemas in declared order and the
\* tables of a schema in declared order; nothing is reordered.
C15_DeclaredOrder ==
  /\ Unpaginated("list_shares") =>
       LET from == { i \in 1..Len(shares) : Visible(shares[i], call.recipient) }
       IN  /\ ret.kind = "Ok"
           /\ Len(ret.v.items) = Cardinality(from)
           /\ \A i \in from :
                ret.v.items[Cardinality({ j \in from : j <= i })] = ShareOf(shares[i])
  /\ Unpaginated("list_schemas") =>
       LET from == { p \in SchemaPos : p[1] \in VisibleShares(call.share_name, call.recipient) }
       IN  /\ ret.kind = "Ok"
           /\ Len(ret.v.items) = Cardinality(from)
           /\ \A p \in from :
                ret.v.items[Cardinality({ q \in from : BeforeSchema(q, p) })]
                  = SchemaOf(shares[p[1]].schemas[p[2]], call.share_name)
  /\ Unpaginated("list_tables_in_share") =>
       LET from == { p \in TablePos : p[1] \in VisibleShares(call.share_name, call.recipient) }
       IN  /\ ret.kind = "Ok"
           /\ Len(ret.v.items) = Cardinality(from)
           /\ \A p \in from :
                ret.v.items[Cardinality({ q \in from : Before(q, p) })]
                  = TableOf(shares[p[1]].schemas[p[2]].tables[p[3]],
                            call.share_name, shares[p[1]].schemas[p[2]].name)
  /\ Unpaginated("list_tables_in_schema") =>
       LET from == { p \in TablePos :
                       /\ p[1] \in VisibleShares(call.share_name, call.recipient)
                       /\ shares[p[1]].schemas[p[2]].name = call.schema_name }
       IN  /\ ret.kind = "Ok"
           /\ Len(ret.v.items) = Cardinality(from)
           /\ \A p \in from :
                ret.v.items[Cardinality({ q \in from : Before(q, p) })]
                  = TableOf(shares[p[1]].schemas[p[2]].tables[p[3]],
                            call.share_name, call.schema_name)

\* C15 witness: the tables of a schema name are listed where the share
\* declares the name twice with another schema in between: the two tables
\* of the first declaration come first, the table of the second one last.
C15_Witness ==
  /\ Unpaginated("list_tables_in_schema")
  /\ call.schema_name = "schema1"
  /\ Len(shares) = 2
  /\ shares[1].name # call.share_name
  /\ shares[2].name = call.share_name
  /\ shares[2].schemas = SchemasB
  /\ ret.kind = "Ok"
  /\ Len(ret.v.items) = 3
  /\ storage_path(ret.v.items[1]) = "gs://bucket/prefix4"
  /\ storage_path(ret.v.items[2]) = "s3://bucket/prefix1"
  /\ ret.v.items[3].name = "table2"

\* the fields build() requires of each builder
Required(kind) ==
  CASE kind = "share" -> {"name"}
    [] kind = "schema" -> {"name", "share_name"}
    [] kind = "table" -> {"name", "share_name", "schema_name", "storage_path"}

\* C16: after any sequence of setter calls, build() succeeds exactly when
\* the last call for every required field gave a value, and fails with kind
\* Internal otherwise; the entity built returns, from each accessor, the
\* value of the last call for that field, an id never set or cleared is
\* absent, and get_extension returns what was last put under the key.
C16_BuildIffRequired ==
  builder.kind \in {"share", "schema", "table"} /\ builder.out # NoRet =>
    LET last == builder.last
        out == builder.out
    IN  /\ out.kind = "Ok" <=> \A f \in Required(builder.kind) : last[f] # None
        /\ out.kind # "Ok" => out.kind = "Err" /\ out.err = "Internal"
        /\ out.kind = "Ok" =>
             /\ out.v.id = last["id"]
             /\ out.v.name = last["name"].v
             /\ builder.kind \in {"schema", "table"} =>
                  out.v.share_name = last["share_name"].v
             /\ builder.kind \in {"share", "table"} =>
                  \A k \in ExtKeys \cup {"does-not-exist"} :
                    get_extension(out.v, k)
                      = IF k \in ExtKeys THEN builder.ext[k] ELSE None
             /\ builder.kind = "table" =>
                  /\ out.v.share_id = last["share_id"]
                  /\ out.v.schema_name = last["schema_name"].v
                  /\ storage_path(out.v) = last["storage_path"].v

\* C16 witness: a table builder that holds a value for every field but the
\* storage path, and an extension under each key, fails to build with kind
\* Internal.
C16_Witness ==
  /\ builder.kind = "table"
  /\ builder.out.kind = "Err"
  /\ builder.out.err = "Internal"
  /\ builder.last["storage_path"] = None
  /\ \A f \in Fields \ {"storage_path"} : builder.last[f] # None
  /\ \A k \in ExtKeys : builder.ext[k] # None
  /\ builder.b.storage_path = None

\* new has returned an instance
Constructed == pc \notin {"start", "panicked"}

\* C17 as claimed: the snapshot of a constructed instance declares no share
\* name twice.
C17_UniqueShareNames ==
  Constructed =>
    \A i, j \in 1..Len(shares) : shares[i].name = shares[j].name => i = j

\* the name n is declared, and only by shares with an empty recipients list
AllEmpty(n) ==
  /\ \E i \in 1..Len(shares) : shares[i].name = n
  /\ \A i \in 1..Len(shares) : shares[i].name = n => shares[i].recipients = Some(<< >>)

\* the name n is declared by a share without a recipients list
SomeAbsent(n) ==
  \E i \in 1..Len(shares) : shares[i].name = n /\ shares[i].recipients = None

\* C18: a share with an empty recipients list is visible to no recipient:
\* list_shares leaves it out, get_share and get_table on its name fail with
\* ResourceNotFound and its schemas and tables are listed for no one, while
\* a share without a list is listed and found for every recipient.
C18_EmptyListHidesShare ==
  /\ Unpaginated("list_shares") =>
       /\ ret.kind = "Ok"
       /\ Len(ret.v.items)
            <= Cardinality({ i \in 1..Len(shares) : shares[i].recipients # Some(<< >>) })
       /\ Len(ret.v.items)
            >= Cardinality({ i \in 1..Len(shares) : shares[i].recipients = None })
       /\ \A k \in 1..Len(ret.v.items) : ~AllEmpty(ret.v.items[k].name)
  /\ (pc = "returned" /\ call.op \in {"get_share", "get_table"} /\ AllEmpty(call.share_name))
       => ret = not_found
  /\ (pc = "returned" /\ call.op = "get_share" /\ SomeAbsent(call.share_name))
       => ret.kind = "Ok"
  /\ (/\ call.op \in {"list_schemas", "list_tables_in_share", "list_tables_in_schema"}
      /\ Unpaginated(call.op)
      /\ AllEmpty(call.share_name)) => ret = EmptyLastPage
  /\ (Unpaginated("list_schemas") /\ SomeAbsent(call.share_name)) =>
       /\ ret.kind = "Ok"
       /\ \A i \in 1..Len(shares) :
            (shares[i].name = call.share_name /\ shares[i].recipients = None)
              => Len(ret.v.items) >= Len(shares[i].schemas)

\* C18 witness: the anonymous recipient lists the schemas of a share that is
\* declared with an empty list, beside a share without a list, and gets
\* none.
C18_Witness ==
  /\ Unpaginated("list_schemas")
  /\ call.recipient = AnonymousId
  /\ AllEmpty(call.share_name)
  /\ \E i \in 1..Len(shares) :
       shares[i].name # call.share_name /\ shares[i].recipients = None
  /\ \E i \in 1..Len(shares) :
       shares[i].name = call.share_name /\ Len(shares[i].schemas) > 0
  /\ ret = EmptyLastPage

\* a call of a client that pages with max_results = 0 through a filtered
\* sequence that is not empty has returned
PagingByZero ==
  /\ pc = "returned"
  /\ trav.active
  /\ call.pagination.max_results = Some(0)
  /\ Len(filtered) > 0

\* C19 as claimed: every call of such a client returns an empty page and a
\* next token that denotes a larger offset than the one the call was given.
C19_TokensAdvance ==
  PagingByZero =>
    /\ ret.kind = "Ok"
    /\ ret.v.items = << >>
    /\ ret.v.next_page_token # None
    /\ parse_usize(ret.v.next_page_token.v) # None
    /\ parse_usize(ret.v.next_page_token.v).v > TokenOffset.v

\* C19 amended: every call of such a client returns an empty page and the
\* next token "0", the offset the call was given: the tokens never advance
\* and the offset never reaches the length.
C19_TokenStaysAtZero ==
  PagingByZero =>
    /\ TokenOffset = Some(0)
    /\ ret = Ok(Page_new(<< >>, Some(<<"0">>)))
    /\ trav.items = << >>

\* C19 witness: the client has made as many calls as it is given, each with
\* max_results = 0, and still holds the token "0" of a sequence of six
\* tables.
C19_Witness ==
  /\ PagingByZero
  /\ trav.calls = MaxCalls
  /\ Len(filtered) = 6
  /\ call.pagination.page_token = Some(<<"0">>)
  /\ ret.kind = "Ok"
  /\ ret.v.next_page_token = Some(<<"0">>)

\* the file the configuration given to new points at, if there is one
ConfiguredFile == disk[config.path]

\* the file exists and its content deserializes in the configured format
Deserializes ==
  /\ ConfiguredFile # None
  /\ from_reader(config.format, ConfiguredFile.v).kind = "Ok"

\* C20: new returns an instance only when the configured file exists and
\* deserializes in the configured format, and then the snapshot is the whole
\* list of shares of the document; when the file is missing or does not
\* deserialize, new panics and there is no instance, neither with the empty
\* initial list nor with the shares that precede a bad entry.
C20_FailFast ==
  /\ Constructed => (Deserializes /\ shares = ConfiguredFile.v.doc.shares)
  /\ pc = "panicked" => ~Deserializes
  /\ (pc # "start" /\ ~Deserializes) => pc = "panicked"

\* C20 witness: the document declares a valid share followed by a share
\* without its name, in the configured format, and new has panicked.
C20_Witness ==
  /\ pc = "panicked"
  /\ ConfiguredFile # None
  /\ reads(config.format, ConfiguredFile.v.syntax)
  /\ "shares" \in DOMAIN ConfiguredFile.v.doc
  /\ Len(ConfiguredFile.v.doc.shares) = 2
  /\ "name" \in DOMAIN ConfiguredFile.v.doc.shares[1]
  /\ "name" \notin DOMAIN ConfiguredFile.v.doc.shares[2]

\* the result of call c on an instance whose snapshot is the list f
ResultOn(f, c) ==
  LET local ==
        CASE c.op \in {"list_shares", "get_share"} -> ShareFile_list_shares(f, c.recipient)
          [] c.op = "list_schemas" -> ShareFile_list_schemas(f, c.recipient, c.share_name)
          [] c.op = "list_tables_in_share" ->
               ShareFile_list_tables_in_share(f, c.recipient, c.share_name)
          [] c.op \in {"list_tables_in_schema", "get_table"} ->
               ShareFile_list_tables_in_schema(f, c.recipient, c.share_name, c.schema_name)
  IN  answer(c, local, TRUE)

VisibleSchemas(s, c, r) ==
  { p \in SchemaPos : p[1] \in VisibleShares(s, r) /\ shares[p[1]].schemas[p[2]].name = c }

\* C22: list_schemas, list_tables_in_share and list_tables_in_schema called
\* without a page token under a share name that no share visible to the
\* recipient carries (or, for list_tables_in_schema, with a schema name that
\* no such share declares) return the empty page without a next token, and
\* not an error.
C22_UnknownParentIsEmptyPage ==
  /\ ( /\ ListingReturned
       /\ call.op \in {"list_schemas", "list_tables_in_share", "list_tables_in_schema"}
       /\ call.pagination.page_token = None
       /\ VisibleShares(call.share_name, call.recipient) = {} )
     => ret = EmptyLastPage
  /\ ( /\ ListingReturned
       /\ call.op = "list_tables_in_schema"
       /\ call.pagination.page_token = None
       /\ VisibleSchemas(call.share_name, call.schema_name, call.recipient) = {} )
     => ret = EmptyLastPage

\* C22 witness: the tables of a schema are listed under a share that is
\* declared but not visible to the caller, and the empty page comes back.
C22_Witness ==
  /\ ListingReturned
  /\ call.op = "list_tables_in_schema"
  /\ call.pagination.page_token = None
  /\ \E i \in 1..Len(shares) :
       /\ shares[i].name = call.share_name
       /\ \E j \in 1..Len(shares[i].schemas) : shares[i].schemas[j].name = call.schema_name
  /\ VisibleShares(call.share_name, call.recipient) = {}
  /\ ret = EmptyLastPage

\* the value the extension calls made so far leave under key k: the last
\* one added since the last set_extensions, else the one in the map of the
\* last set_extensions, else none
BagValue(k) ==
  IF k \in ExtKeys /\ builder.added[k] # None THEN builder.added[k]
  ELSE IF builder.set # None /\ builder.set.v # None /\ k \in DOMAIN builder.set.v.v
    THEN Some(builder.set.v.v[k])
  ELSE None

\* C23: for a share or table builder after any sequence of add_extension
\* and set_extensions calls, and for the entity it builds, get_extension(k)
\* is the value of the last add_extension for k made after the last
\* set_extensions, else the value of k in the map of the last
\* set_extensions, else nothing; the bag is absent exactly when nothing was
\* added since the last set_extensions and that call (if any) gave no map.
C23_ExtensionBag ==
  builder.kind \in {"share", "table"} =>
    /\ \A k \in ExtKeys \cup {"does-not-exist"} :
         /\ get_extension(builder.b, k) = BagValue(k)
         /\ (builder.out # NoRet /\ builder.out.kind = "Ok") =>
              get_extension(builder.out.v, k) = BagValue(k)
    /\ builder.b.extensions = None <=>
         /\ \A k \in ExtKeys : builder.added[k] = None
         /\ builder.set \in {None, Some(None)}

\* C23 witness: a table was built after the last set_extensions call gave
\* no map and add_extension then put one key into a new bag; the key is
\* found, the other key is not.
C23_Witness ==
  /\ builder.kind = "table"
  /\ builder.out # NoRet
  /\ builder.out.kind = "Ok"
  /\ builder.set = Some(None)
  /\ builder.added["foo"] = Some("quux")
  /\ builder.added["qux"] = None
  /\ get_extension(builder.out.v, "foo") = Some("quux")
  /\ get_extension(builder.out.v, "qux") = None

\* the entities an operation has returned: the items of a page, or the one
\* entity of a lookup
Returned ==
  IF pc = "returned" /\ ret.kind = "Ok"
    THEN IF call.op \in ListingOps THEN Elems(ret.v.items) ELSE {ret.v}
    ELSE {}

\* C24: every schema returned by list_schemas(s) carries share name s; every
\* table returned by list_tables_in_schema(s, c) or get_table(s, c, t)
\* carries share name s and schema name c; every table returned by
\* list_tables_in_share(s) carries share name s and the name of a schema,
\* declared under a visible share named s, that declares it.  The ids of
\* shares and schemas and the share id of tables are absent, and the id of
\* a table is the id configured for it.
C24_BackReferences ==
  /\ call.op \in {"list_shares", "get_share"} =>
       \A e \in Returned : e.id = None
  /\ call.op = "list_schemas" =>
       \A e \in Returned : e.id = None /\ e.share_name = call.share_name
  /\ call.op \in {"list_tables_in_share", "list_tables_in_schema", "get_table"} =>
       \A e \in Returned :
         /\ e.share_id = None
         /\ e.share_name = call.share_name
         /\ call.op # "list_tables_in_share" => e.schema_name = call.schema_name
         /\ \E p \in TablePos :
              /\ p[1] \in VisibleShares(call.share_name, call.recipient)
              /\ shares[p[1]].schemas[p[2]].name = e.schema_name
              /\ shares[p[1]].schemas[p[2]].tables[p[3]].name = e.name
              /\ shares[p[1]].schemas[p[2]].tables[p[3]].id = e.id
              /\ shares[p[1]].schemas[p[2]].tables[p[3]].location = storage_path(e)

\* C24 witness: a second page of the tables of a share holds a table with
\* a configured id, declared in schema1, next to a table without an id.
C24_Witness ==
  /\ pc = "returned"
  /\ call.op = "list_tables_in_share"
  /\ call.pagination.page_token # None
  /\ ret.kind = "Ok"
  /\ \E e, g \in Returned :
       /\ e.id = Some("id4") /\ e.schema_name = "schema1"
       /\ g.id = None /\ g.share_id = None

\* the required fields of an entity in the order build() asks for them, by
\* setter name
CheckOrder(kind) ==
  CASE kind = "share" -> <<"name">>
    [] kind = "schema" -> <<"name", "share_name">>
    [] kind = "table" -> <<"share_name", "schema_name", "name", "storage_path">>

\* the attribute name a message uses for a field
Attribute(kind, f) == IF kind = "table" /\ f = "name" THEN "table_name" ELSE f

\* the required fields whose last setter call gave no value
Missing(kind) == { i \in DOMAIN CheckOrder(kind) : builder.last[CheckOrder(kind)[i]] = None }

\* C25: a failed build() reports exactly one field: the first one, in the
\* order share: name; schema: name, share_name; table: share_name,
\* schema_name, name, storage_path, whose last setter call gave no value,
\* whatever the order of the setter calls and however many are missing.
C25_FirstMissingField ==
  (builder.kind \in {"share", "schema", "table"} /\ builder.out # NoRet
     /\ builder.out.kind # "Ok") =>
    LET order == CheckOrder(builder.kind)
        first == CHOOSE i \in Missing(builder.kind) :
                   \A j \in Missing(builder.kind) : i <= j
    IN  /\ Missing(builder.kind) # {}
        /\ builder.out = internal(not_set(Attribute(builder.kind, order[first])))
        /\ \A i \in DOMAIN order :
             i # first =>
               message(builder.out) # not_set(Attribute(builder.kind, order[i]))

\* C25 witness: a table builder given a share name and a table name, but no
\* schema name and no storage path, fails with the message about
\* schema_name.
C25_Witness ==
  /\ builder.kind = "table"
  /\ builder.out # NoRet
  /\ builder.out.kind = "Err"
  /\ builder.last["share_name"] # None
  /\ builder.last["name"] # None
  /\ builder.last["schema_name"] = None
  /\ builder.last["storage_path"] = None
  /\ message(builder.out) = <<"the required attribute", "schema_name", "was not set">>

\* the snapshot without the shares that r may not see
VisiblePart(f, r) == SelectSeq(f, LAMBDA cfg : Visible(cfg, r))

\* C26: what an operation returns to recipient r (a page, an entity, an
\* error or a panic) is what it returns on the snapshot from which every
\* share not visible to r has been removed, for every page token and
\* max_results; so two snapshots that differ only in shares r may not see
\* give r the same result.
C26_NonInterference ==
  pc = "returned" => ret = ResultOn(VisiblePart(shares, call.recipient), call)

\* C26 witness: a recipient pages, with a token, through the tables of a
\* schema under a share name that is declared twice, first by a share the
\* recipient may not see, and receives tables.
C26_Witness ==
  /\ pc = "returned"
  /\ call.op = "list_tables_in_schema"
  /\ call.pagination.page_token # None
  /\ Len(shares) = 2
  /\ shares[1].name = call.share_name
  /\ shares[2].name = call.share_name
  /\ ~Visible(shares[1], call.recipient)
  /\ Visible(shares[2], call.recipient)
  /\ ret.kind = "Ok"
  /\ Len(ret.v.items) > 0

\* C27: when the offset of the page token plus the limit exceeds the
\* largest machine word, the call returns no page that holds items and no
\* next token that denotes an offset below the one supplied, whether the
\* build traps the overflow or wraps the sum.
C27_NoWrappedPage ==
  ( /\ pc = "returned"
    /\ call.op = "paginate_response"
    /\ TokenOffset # None
    /\ TokenOffset.v + Limit > USIZE_MAX )
  => \/ ret.kind # "Ok"
     \/ /\ ret.v.items = << >>
        /\ \/ ret.v.next_page_token = None
           \/ /\ parse_usize(ret.v.next_page_token.v) # None
              /\ parse_usize(ret.v.next_page_token.v).v >= TokenOffset.v

\* C27 witness: a token below the largest word, with the default limit,
\* overflows on a vector of three items, and the call panics.
C27_Witness ==
  /\ pc = "returned"
  /\ call.op = "paginate_response"
  /\ call.pagination.max_results = None
  /\ TokenOffset # None
  /\ TokenOffset.v < USIZE_MAX
  /\ TokenOffset.v + Limit > USIZE_MAX
  /\ Len(filtered) = 3
  /\ ret = Panic

\* the number of calls a traversal of n items with limit l >= 1 takes:
\* max(1, ceil(n / l))
CallsNeeded(n, l) ==
  IF (n + l - 1) \div l > 1 THEN (n + l - 1) \div l ELSE 1

\* C28: with a limit L >= 1 (or the default) over a filtered sequence of N
\* items, every next token a listing call returns is the decimal text of an
\* offset above the offset supplied and below N, and parses back to it; a
\* client that starts without a token and follows the tokens receives no
\* token on call number max(1, ceil(N / L)) and not before.
C28_PagingTerminates ==
  /\ (ListingReturned /\ Limit >= 1 /\ ret.kind = "Ok"
        /\ ret.v.next_page_token # None) =>
       LET next == parse_usize(ret.v.next_page_token.v)
       IN  /\ TokenOffset # None
           /\ next # None
           /\ next.v > TokenOffset.v
           /\ next.v < Len(filtered)
           /\ to_string(next.v) = ret.v.next_page_token.v
  /\ (pc = "returned" /\ trav.active /\ Limit >= 1) =>
       /\ ret.kind = "Ok"
       /\ ret.v.next_page_token = None
            <=> trav.calls = CallsNeeded(Len(filtered), Limit)
       /\ trav.calls <= CallsNeeded(Len(filtered), Limit)

\* C28 witness: five items paged two at a time: the third call returns the
\* last item and no token.
C28_Witness ==
  /\ pc = "returned"
  /\ trav.active
  /\ call.pagination.max_results = Some(2)
  /\ Len(filtered) = 5
  /\ trav.calls = 3
  /\ ret.kind = "Ok"
  /\ ret.v.next_page_token = None
  /\ Len(ret.v.items) = 1

\* the tables of schema c in what list_tables_in_share(s, r) returns on
\* this instance without pagination, in the order of that page
InShareOfSchema(s, c, r) ==
  LET whole == ResultOn(shares, Call("list_tables_in_share", s, NoArg, NoArg, r,
                                     NoPagination))
  IN  IF whole.kind = "Ok"
        THEN SelectSeq(whole.v.items, LAMBDA t : t.schema_name = c)
        ELSE << >>

\* C29: without pagination, list_tables_in_schema(s, c, r) returns the
\* tables with schema name c of what list_tables_in_share(s, r) returns, in
\* the same order; get_table(s, c, t, r) returns a table exactly when one
\* named t is among them (the first such), and ResourceNotFound otherwise.
C29_SchemaListingIsShareListing ==
  /\ Unpaginated("list_tables_in_schema") =>
       /\ ret.kind = "Ok"
       /\ ret.v.next_page_token = None
       /\ ret.v.items = InShareOfSchema(call.share_name, call.schema_name, call.recipient)
  /\ (pc = "returned" /\ call.op = "get_table") =>
       LET among == InShareOfSchema(call.share_name, call.schema_name, call.recipient)
           named == { i \in DOMAIN among : among[i].name = call.table_name }
       IN  /\ ret.kind = "Ok" <=> named # {}
           /\ ret.kind = "Ok" =>
                ret.v = among[CHOOSE i \in named : \A j \in named : i <= j]
           /\ ret.kind # "Ok" => ret = not_found

\* C29 witness: the tables of schema1 are listed under a share name whose
\* visible share declares schema1 twice with schema2 in between: the page
\* holds three of the share's tables.
C29_Witness ==
  /\ Unpaginated("list_tables_in_schema")
  /\ call.schema_name = "schema1"
  /\ Cardinality(VisibleShares(call.share_name, call.recipient)) = 1
  /\ \E i \in VisibleShares(call.share_name, call.recipient) : shares[i].schemas = SchemasB
  /\ ret.kind = "Ok"
  /\ Len(ret.v.items) = 3

\* the load steps of the handler
LoadSteps == {"load_with_datetime", "load_version"}

\* C30: when a request with a version and a timestamp gets as far as the
\* headers, the table was first moved by load_with_datetime and last by
\* load_version, and the table handed on and the Delta-Table-Version header
\* carry the requested version; when a load step fails the request ends
\* with an error, and no header is built then or later in that request.
C30_VersionPrecedes ==
  /\ [](query.pc # "none" =>
          /\ (query.headers # None /\ query.payload.version # None) =>
               /\ query.handed # None
               /\ query.handed.v.version = query.payload.version.v
               /\ query.headers.v[HEADER_NAME] = to_string(query.payload.version.v)
               /\ query.loads = IF query.payload.timestamp # None
                                  THEN <<"load_with_datetime", "load_version">>
                                  ELSE <<"load_version">>
          /\ (query.failed # None /\ query.failed.v \in LoadSteps) =>
               /\ query.pc = "error"
               /\ query.response = Some(anyhow)
               /\ query.headers = None
               /\ query.handed = None)
  /\ [][query.pc = "error" => query'.pc \in {"error", "none"}]_vars

\* C30 witness: a request for version 0 with a timestamp: the reader put
\* the table at version 1 for the timestamp, the version load put it at 0,
\* and the header says 0.
C30_Witness ==
  /\ query.pc = "panicked"
  /\ query.payload.version = Some(0)
  /\ query.payload.timestamp # None
  /\ query.loads = <<"load_with_datetime", "load_version">>
  /\ query.handed = Some([version |-> 0, latest |-> 2])
  /\ query.headers.v[HEADER_NAME] = <<"0">>

====
